---------------------------- MODULE Spec2Model ----------------------------
(***************************************************************************)
(* Model of the resilient operation core of the image-verification API:    *)
(*   - the transient-error classifiers (repository.isTransientError and    *)
(*     usecase.isTransientError),                                          *)
(*   - the retry executors (repository.executeWithRetry and                *)
(*     usecase.withRedisRetry),                                            *)
(*   - the write path of VerificationUseCase.VerifyImage,                  *)
(*   - the read paths GetResult and GetDuplicateReport,                    *)
(*   - the duplicate query FindDuplicatesByHash,                           *)
(*   - GetMetricsSummary,                                                  *)
(*   - the serve-and-shut-down function serveHTTPServerWithOptions,        *)
(*   - SaveLog against a database whose replies can be lost,               *)
(*   - the HTTP routes of RegisterRoutes.                                  *)
(*                                                                         *)
(* The specifications share the variables:                                 *)
(*   SpecClassify  applies both classifiers to an error chain,             *)
(*   SpecRetry     runs one retry executor on an arbitrary fn              *)
(*                 (SpecRetryFair: with its own steps weakly fair),        *)
(*   SpecVerify    runs VerifyImage requests against cache and store,      *)
(*   SpecRead      runs one GetResult or GetDuplicateReport call           *)
(*                 (SpecReadAny: on any decodable cache payload,           *)
(*                  SpecReadPerUser: on tables unique per (user, hash),    *)
(*                  SpecReads: side by side with GetMetricsSummary),       *)
(*   SpecQuery     runs one FindDuplicatesByHash call on a table,          *)
(*   SpecMetrics   runs one GetMetricsSummary call,                        *)
(*   SpecServe     runs one serveHTTPServerWithOptions call                *)
(*                 (SpecServeFair: under the runtime's scheduling),        *)
(*   SpecSave      runs one SaveLog call,                                  *)
(*   SpecHttp      answers one HTTP request.                               *)
(* Each specification keeps the variables of the others at rest.           *)
(***************************************************************************)
EXTENDS Integers, Sequences, FiniteSets, TLC

VARIABLES
    \* ---- classifier harness
    clsErr,          \* the error handed to the classifiers
    repoVerdict,     \* "none" | "true" | "false": repository.isTransientError
    ucVerdict,       \* "none" | "true" | "false": usecase.isTransientError
    \* ---- retry executor: receiver fields and arguments
    layer,           \* "repository" (executeWithRetry) | "usecase" (withRedisRetry)
    retryAttempts,   \* r.retryAttempts / uc.retryAttempts
    initialBackoff,  \* r.initialBackoff / uc.initialBackoff
    maxBackoff,      \* r.maxBackoff / uc.maxBackoff
    operation,       \* argument operation
    requestID,       \* argument requestID (the correlation id)
    \* ---- retry executor: locals and position
    pc,              \* position in the executor
    attempt,         \* loop variable attempt
    backoff,         \* local backoff
    err,             \* local err: the result of the latest fn()
    result,          \* the value returned by the executor
    ctxErr,          \* ctx.Err(): Nil until the context is done
    logs,            \* observations emitted through opLogger
    \* ---- retry executor: history
    calls,           \* number of fn() invocations
    waits,           \* durations of the completed backoff waits, in order
    classified,      \* number of isTransientError invocations
    firstErr,        \* result of the first fn() invocation
    nTransient,      \* number of fn() results that were transient errors
    cancelledAt,     \* calls at the moment the context was cancelled in a wait, else -1
    \* ---- VerifyImage: one entry per call (request slot)
    vpc,             \* step of the call: idle, set_processing, process, save_log, set_result, returned
    sub,             \* position inside the step's retry executor: call, blocked
    att,             \* the executor's loop variable attempt
    vctx,            \* ctx.Err() of the call's context: Nil until it is done
    vreq,            \* requestID, userID, imageBytes of the call
    vres,            \* the scorer's result
    vlog,            \* the VerificationLog built by the call
    vret,            \* what the call returned: requestID, result, err
    \* ---- VerifyImage: the collaborators
    cache,           \* the key-value cache: key -> entry
    store,           \* the verification_logs table, in insertion order
    clock,           \* time.Now(), as a logical clock
    \* ---- VerifyImage: history
    markerSets,      \* per call: the results of its cache.Set("processing") invocations
    setKeys,         \* per call: the keys it has passed to cache.Set
    creates,         \* per call: the results of its db.Create invocations
    scorerCalls,     \* per call: the number of its processor.Process invocations
    \* ---- GetResult / GetDuplicateReport: one call
    rop,             \* the method called: none, GetResult, GetDuplicateReport
    rpc,             \* step of the call: idle, cache_get, find, dups, returned
    rsub,            \* position inside the step's retry executor: call, blocked
    ratt,            \* the executor's loop variable attempt
    rctx,            \* ctx.Err() of the call's context: Nil until it is done
    rarg,            \* the arguments userID, requestID
    rlog,            \* GetDuplicateReport's local log
    rret,            \* what the call returned
    \* ---- GetResult / GetDuplicateReport: history
    gets,            \* the results of the cache.Get invocations, in order
    nFind,           \* number of FindByRequestIDAndUser calls
    nDups,           \* number of FindDuplicatesByHash calls
    getRes,          \* what withRedisGet returned: value and error
    findRes,         \* what FindByRequestIDAndUser returned: log and error
    \* ---- GetMetricsSummary: one call
    mpc,             \* step of the call: idle, aggregate, returned
    magg,            \* what AggregateMetrics returned: aggregation and error
    mret,            \* what the call returned: summary and error
    mdivs,           \* number of divisions the call has performed
    \* ---- serveHTTPServerWithOptions: one call
    spc,             \* the function: start, select, shutdown, recv, returned
    gpc,             \* the serving goroutine: off, serving, ended, sent
    gerr,            \* the error Serve / ListenAndServe returned
    errCh,           \* the buffered channel errCh (capacity 1)
    sigCh,           \* the signal channel: empty, signal, closed
    sigSource,       \* "os" (signal.Notify on an own channel) | "caller" (signalCh)
    shutCtx,         \* context of server.Shutdown: none, running, expired
    shutRes,         \* what server.Shutdown returned
    reqs,            \* per HTTP request: none, inflight, answered
    sret,            \* what the function returned
    \* ---- serveHTTPServerWithOptions: history
    sends,           \* number of sends on errCh
    atSignal,        \* the requests in flight when the signal was received
    inTime,          \* the requests answered before the shutdown context expired
    \* ---- the HTTP routes of RegisterRoutes: one request
    hpc,             \* the request: idle, core (the use case is running), answered
    hreq,            \* the request received: route, identity, upload or id
    hcall,           \* the use-case call the route made, if any, and its arguments
    hret,            \* the error the use case returned to the route
    hresp            \* the response written: status and error message

clsVars == <<clsErr, repoVerdict, ucVerdict>>

cfgVars == <<layer, retryAttempts, initialBackoff, maxBackoff, operation, requestID>>

runVars == <<pc, attempt, backoff, err, result, ctxErr, logs>>

histVars == <<calls, waits, classified, firstErr, nTransient, cancelledAt>>

retryVars == <<cfgVars, runVars, histVars>>

callVars == <<vpc, sub, att, vctx, vreq, vres, vlog, vret>>

worldVars == <<cache, store, clock>>

traceVars == <<markerSets, setKeys, creates, scorerCalls>>

verifyVars == <<callVars, worldVars, traceVars>>

readVars == <<rop, rpc, rsub, ratt, rctx, rarg, rlog, rret>>

readTrace == <<gets, nFind, nDups, getRes, findRes>>

readerVars == <<readVars, readTrace>>

metricsVars == <<mpc, magg, mret, mdivs>>

serveVars == <<spc, gpc, gerr, errCh, sigCh, sigSource, shutCtx, shutRes, reqs, sret>>

serveTrace == <<sends, atSignal, inTime>>

handlerVars == <<hpc, hreq, hcall, hret, hresp>>

extraVars == <<metricsVars, serveVars, serveTrace, handlerVars>>

vars == <<clsVars, retryVars, verifyVars, readerVars, extraVars>>

----------------------------------------------------------------------------
(***************************************************************************)
(* Bounds of the model.                                                    *)
(***************************************************************************)

\* longest error chain (wrappers plus the wrapped error) given to a classifier
MaxChain == 2

\* largest attempt budget the executor is configured with
MaxAttempts == 4

\* largest initial backoff, in ticks
MaxInitialBackoff == 3

\* largest backoff cap, in ticks
MaxMaxBackoff == 4

\* smallest attempt budget: a negative one
MinAttempts == 0 - 1

\* number of VerifyImage calls
MaxRequests == 2

\* largest number of records in the store a read call finds
MaxStored == 2

\* rows of a verification_logs table the duplicate query is run against
MaxRows == 3

\* retryAttempts as NewVerificationRepository and NewVerificationUseCase set it
DefaultRetryAttempts == 3

----------------------------------------------------------------------------
(***************************************************************************)
(* Errors.  A Go error value is modelled by its Unwrap chain: a sequence   *)
(* of nodes, outermost first.  nil is the empty chain.                     *)
(***************************************************************************)

Nil == <<>>

Leaf(k) == [kind |-> k, op |-> "", rid |-> ""]

Err(k) == <<Leaf(k)>>

\* error kinds without an Unwrap method
LeafKinds ==
    { "DeadlineExceeded",    \* context.DeadlineExceeded
      "Canceled",            \* context.Canceled
      "ErrBadConn",          \* driver.ErrBadConn
      "ErrRecordNotFound",   \* gorm.ErrRecordNotFound
      "DuplicateKey",        \* the database's uniqueness violation
      "RedisNil",            \* redis.Nil
      "Boom",                \* errors.New("boom")
      "transientTestError",  \* Timeout() and Temporary() both true
      "TimeoutErr",          \* Timeout() true, no Temporary method
      "TemporaryErr",        \* Temporary() true, no Timeout method
      "RefusedErr" }         \* Timeout() and Temporary() both false

\* error kinds that wrap another error
WrapKinds ==
    { "Wrapf",               \* fmt.Errorf("...: %w", err): no methods
      "QuietWrap" }          \* a wrapper whose Timeout()/Temporary() say false

\* kinds whose type has a Timeout() bool method, and those for which it says true
HasTimeout(k) ==
    k \in {"DeadlineExceeded", "transientTestError", "TimeoutErr", "RefusedErr", "QuietWrap"}

TimeoutSays(k) == k \in {"DeadlineExceeded", "transientTestError", "TimeoutErr"}

\* kinds whose type has a Temporary() bool method, and those for which it says true
HasTemporary(k) ==
    k \in {"DeadlineExceeded", "transientTestError", "TemporaryErr", "RefusedErr", "QuietWrap"}

TemporarySays(k) == k \in {"DeadlineExceeded", "transientTestError", "TemporaryErr"}

\* the chains of at most n nodes: wrappers around one leaf
RECURSIVE ChainsUpTo(_)
ChainsUpTo(n) ==
    IF n <= 1 THEN { Err(k) : k \in LeafKinds }
    ELSE LET shorter == ChainsUpTo(n - 1)
         IN  shorter \cup { <<Leaf(w)>> \o e : w \in WrapKinds, e \in shorter }

ErrChains == ChainsUpTo(MaxChain)

\* errors.Is(e, target) for a sentinel target: walk the chain by Unwrap
RECURSIVE ErrorsIs(_, _)
ErrorsIs(e, target) ==
    IF e = Nil THEN FALSE
    ELSE IF Head(e).kind = target THEN TRUE
    ELSE ErrorsIs(Tail(e), target)

\* errors.As(e, &netErr) && netErr.Timeout(): the first node in the chain
\* whose type has the method is the one asked
RECURSIVE AsTimeout(_)
AsTimeout(e) ==
    IF e = Nil THEN FALSE
    ELSE IF HasTimeout(Head(e).kind) THEN TimeoutSays(Head(e).kind)
    ELSE AsTimeout(Tail(e))

\* errors.As(e, &temporary) && temporary.Temporary()
RECURSIVE AsTemporary(_)
AsTemporary(e) ==
    IF e = Nil THEN FALSE
    ELSE IF HasTemporary(Head(e).kind) THEN TemporarySays(Head(e).kind)
    ELSE AsTemporary(Tail(e))

\* logging.NewOperationError
NewOperationError(o, rid, e) ==
    IF e = Nil THEN Nil
    ELSE <<[kind |-> "OperationError", op |-> o, rid |-> rid]>> \o e

\* (*OperationError).Unwrap
Unwrap(e) == IF e = Nil THEN Nil ELSE Tail(e)

----------------------------------------------------------------------------
(***************************************************************************)
(* The two transient classifiers.                                          *)
(***************************************************************************)

\* C11 mutant: the cache classifier takes redis.Nil for a transient error
C11_MutantMissIsTransient(e) ==
    IF e = Nil THEN FALSE
    ELSE IF ErrorsIs(e, "DeadlineExceeded") THEN TRUE
    ELSE IF ErrorsIs(e, "RedisNil") THEN TRUE
    ELSE IF AsTimeout(e) THEN TRUE
    ELSE IF AsTemporary(e) THEN TRUE
    ELSE FALSE

\* usecase.isTransientError
usecaseIsTransientError(e) ==
    IF e = Nil THEN FALSE
    ELSE IF ErrorsIs(e, "DeadlineExceeded") THEN TRUE
    ELSE IF AsTimeout(e) THEN TRUE
    ELSE IF AsTemporary(e) THEN TRUE
    ELSE FALSE

\* C9 mutant: the persistence classifier without its driver.ErrBadConn test
C9_MutantNoBadConn(e) ==
    IF e = Nil THEN FALSE
    ELSE IF ErrorsIs(e, "DeadlineExceeded") THEN TRUE
    ELSE IF AsTimeout(e) THEN TRUE
    ELSE IF AsTemporary(e) THEN TRUE
    ELSE FALSE

\* C20 mutant: the persistence classifier takes the uniqueness violation for
\* a transient error
C20_MutantConflictIsTransient(e) ==
    IF e = Nil THEN FALSE
    ELSE IF ErrorsIs(e, "DeadlineExceeded") THEN TRUE
    ELSE IF ErrorsIs(e, "ErrBadConn") THEN TRUE
    ELSE IF ErrorsIs(e, "DuplicateKey") THEN TRUE
    ELSE IF AsTimeout(e) THEN TRUE
    ELSE IF AsTemporary(e) THEN TRUE
    ELSE FALSE

\* repository.isTransientError
repositoryIsTransientError(e) ==
    IF e = Nil THEN FALSE
    ELSE IF ErrorsIs(e, "DeadlineExceeded") THEN TRUE
    ELSE IF ErrorsIs(e, "ErrBadConn") THEN TRUE
    ELSE IF AsTimeout(e) THEN TRUE
    ELSE IF AsTemporary(e) THEN TRUE
    ELSE FALSE

\* the classifier each executor calls
isTransientError(l, e) ==
    IF l = "repository" THEN repositoryIsTransientError(e)
    ELSE usecaseIsTransientError(e)

Verdict(b) == IF b THEN "true" ELSE "false"

----------------------------------------------------------------------------
(***************************************************************************)
(* SpecClassify: both classifiers applied to every chain up to MaxChain.   *)
(***************************************************************************)

RetryAtRest ==
    /\ layer = "repository"
    /\ retryAttempts = DefaultRetryAttempts
    /\ initialBackoff = 1
    /\ maxBackoff = 1
    /\ operation = ""
    /\ requestID = ""
    /\ pc = "off"
    /\ attempt = 0
    /\ backoff = 0
    /\ err = Nil
    /\ result = Nil
    /\ ctxErr = Nil
    /\ logs = <<>>
    /\ calls = 0
    /\ waits = <<>>
    /\ classified = 0
    /\ firstErr = Nil
    /\ nTransient = 0
    /\ cancelledAt = 0 - 1

ClassifyAtRest ==
    /\ clsErr = Nil
    /\ repoVerdict = "none"
    /\ ucVerdict = "none"

VerifyAtRest ==
    /\ vpc = <<>>
    /\ sub = <<>>
    /\ att = <<>>
    /\ vctx = <<>>
    /\ vreq = <<>>
    /\ vres = <<>>
    /\ vlog = <<>>
    /\ vret = <<>>
    /\ cache = <<>>
    /\ store = <<>>
    /\ clock = 0
    /\ markerSets = <<>>
    /\ setKeys = <<>>
    /\ creates = <<>>
    /\ scorerCalls = <<>>

ReadAtRest ==
    /\ rop = "none"
    /\ rpc = "off"
    /\ rsub = "none"
    /\ ratt = 0
    /\ rctx = <<>>
    /\ rarg = <<>>
    /\ rlog = <<>>
    /\ rret = <<>>
    /\ gets = <<>>
    /\ nFind = 0
    /\ nDups = 0
    /\ getRes = <<>>
    /\ findRes = <<>>

\* GetMetricsSummary is not called
MetricsAtRest ==
    /\ mpc = "off"
    /\ magg = <<>>
    /\ mret = <<>>
    /\ mdivs = 0

\* serveHTTPServerWithOptions is not called
ServeAtRest ==
    /\ spc = "off"
    /\ gpc = "off"
    /\ gerr = <<>>
    /\ errCh = <<>>
    /\ sigCh = "empty"
    /\ sigSource = "none"
    /\ shutCtx = "none"
    /\ shutRes = <<>>
    /\ reqs = <<>>
    /\ sret = <<>>
    /\ sends = 0
    /\ atSignal = {}
    /\ inTime = {}

HandlerAtRest ==
    /\ hpc = "off"
    /\ hreq = <<>>
    /\ hcall = <<>>
    /\ hret = <<>>
    /\ hresp = <<>>

ExtraAtRest == MetricsAtRest /\ ServeAtRest /\ HandlerAtRest

InitClassify ==
    /\ ExtraAtRest
    /\ ReadAtRest
    /\ clsErr \in ErrChains \cup {Nil}
    /\ repoVerdict = "none"
    /\ ucVerdict = "none"
    /\ RetryAtRest
    /\ VerifyAtRest

ClassifyRepository ==
    /\ repoVerdict = "none"
    /\ repoVerdict' = Verdict(repositoryIsTransientError(clsErr))
    /\ UNCHANGED <<extraVars, readerVars, clsErr, ucVerdict, retryVars, verifyVars>>

ClassifyUsecase ==
    /\ ucVerdict = "none"
    /\ ucVerdict' = Verdict(usecaseIsTransientError(clsErr))
    /\ UNCHANGED <<extraVars, readerVars, clsErr, repoVerdict, retryVars, verifyVars>>

NextClassify == ClassifyRepository \/ ClassifyUsecase

SpecClassify == InitClassify /\ [][NextClassify]_vars

----------------------------------------------------------------------------
(***************************************************************************)
(* SpecRetry: one execution of a retry executor.                           *)
(*                                                                         *)
(* fn is arbitrary: every invocation returns nil or one of FnErrors.  The  *)
(* caller's context may be cancelled, or its deadline may expire, at any   *)
(* moment before the executor returns.                                     *)
(***************************************************************************)

Layers == {"repository", "usecase"}

\* (operation, requestID) pairs the executors are called with
CallSites(l) ==
    IF l = "repository"
    THEN { <<"repository.save_log", "req-1">>, <<"repository.automigrate", "">> }
    ELSE { <<"cache.set.processing", "req-1">>, <<"cache.get.result", "req-2">> }

\* what an invocation of fn may return besides nil
FnErrors == { Err("transientTestError"), Err("ErrBadConn"), Err("Boom"), Err("Canceled") }

FnResults == FnErrors \cup {Nil}

\* what ctx.Err() is once the context is done
CtxErrors == { Err("Canceled"), Err("DeadlineExceeded") }

\* C3 mutant: the guard written `< 1`, so that a budget of one enters the loop
C3_MutantLoopsOnBudgetOne == retryAttempts < 1

\* `if r.retryAttempts <= 1`
NoRetry == retryAttempts <= 1

\* C2 mutant: the budget test off by one, giving up one attempt early
C2_MutantGivesUpEarly(a) == a = retryAttempts - 2

\* C28 mutant: the budget test off by one the other way, allowing one more
\* attempt than the budget
C28_MutantOneAttemptMore(a) == a = retryAttempts

\* `attempt == r.retryAttempts-1`
BudgetExhausted(a) == a = retryAttempts - 1

\* C1 mutant: the classifier is not asked, only the budget stops the loop
C1_MutantStopsOnlyOnBudget(l, e, a) == a = retryAttempts - 1

\* `if !isTransientError(err) || attempt == r.retryAttempts-1`
ShouldStop(l, e, a) == ~isTransientError(l, e) \/ BudgetExhausted(a)

\* C7 mutant: the backoff doubles without the test against maxBackoff
C7_MutantUncappedDoubling(b) == b * 2

\* `if next := backoff * 2; next <= r.maxBackoff { backoff = next }`
NextBackoff(b) == IF b * 2 <= maxBackoff THEN b * 2 ELSE b

\* the return value of the attemptBudget <= 1 path:
\* repository: `return fn()`; usecase: `return NewOperationError(operation, requestID, fn())`
SingleAttemptResult(l, o, rid, e) ==
    IF l = "repository" THEN e ELSE NewOperationError(o, rid, e)

\* C5 mutant: the cancellation path returns the last fn error, not ctx.Err()
C5_MutantReturnsLastError(o, rid, c) == NewOperationError(o, rid, err)

\* the error returned when ctx.Done() wins the select
CancelledResult(o, rid, c) == NewOperationError(o, rid, c)

\* C8 mutant: `return nil` reached only on the first attempt, so a success
\* after a retry goes round the loop again while the budget lasts
C8_MutantNoReturnAfterRetry(l, e, a) ==
    IF e = Nil
    THEN (IF a = 0 \/ a = retryAttempts - 1 THEN "ok" ELSE "retry")
    ELSE IF ~isTransientError(l, e) \/ a = retryAttempts - 1 THEN "fail"
    ELSE "retry"

\* what the loop body does with the result e of fn() on attempt a:
\* "ok" (return nil), "fail" (return the wrapped error) or "retry"
AttemptOutcome(l, e, a) ==
    IF e = Nil THEN "ok"
    ELSE IF ShouldStop(l, e, a) THEN "fail"
    ELSE "retry"

Log(level, a) == [level |-> level, attempt |-> a]

InitRetry ==
    /\ ExtraAtRest
    /\ ReadAtRest
    /\ ClassifyAtRest
    /\ VerifyAtRest
    /\ layer \in Layers
    /\ retryAttempts \in MinAttempts..MaxAttempts
    /\ initialBackoff \in 0..MaxInitialBackoff
    /\ maxBackoff \in 0..MaxMaxBackoff
    /\ \E site \in CallSites(layer) : operation = site[1] /\ requestID = site[2]
    /\ pc = "start"
    /\ attempt = 0
    /\ backoff = 0
    /\ err = Nil
    /\ result = Nil
    /\ ctxErr = Nil
    /\ logs = <<>>
    /\ calls = 0
    /\ waits = <<>>
    /\ classified = 0
    /\ firstErr = Nil
    /\ nTransient = 0
    /\ cancelledAt = 0 - 1

\* history of one fn() invocation returning e
Invoked(e) ==
    /\ calls' = calls + 1
    /\ firstErr' = IF calls = 0 THEN e ELSE firstErr
    /\ nTransient' = IF isTransientError(layer, e) THEN nTransient + 1 ELSE nTransient

\* attemptBudget <= 1: fn runs once, outside any loop
RunSingle ==
    /\ pc = "start"
    /\ NoRetry
    /\ \E e \in FnResults :
          /\ err' = e
          /\ result' = SingleAttemptResult(layer, operation, requestID, e)
          /\ Invoked(e)
    /\ pc' = "done"
    /\ UNCHANGED <<extraVars, readerVars, clsVars, verifyVars, cfgVars, attempt, backoff, ctxErr, logs,
                   waits, classified, cancelledAt>>

\* attemptBudget >= 2: `backoff := r.initialBackoff`, and the loop is entered
\* with attempt = 0, which skips the select
EnterLoop ==
    /\ pc = "start"
    /\ ~NoRetry
    /\ backoff' = initialBackoff
    /\ attempt' = 0
    /\ pc' = "call"
    /\ UNCHANGED <<extraVars, readerVars, clsVars, verifyVars, cfgVars, err, result, ctxErr, logs, histVars>>

\* `select { case <-ctx.Done(): ... case <-time.After(backoff): }` is reached.
\* A context that is already done is taken at once; a timer of no duration
\* may be ready as well, and then either case may be chosen.
Select ==
    /\ pc = "select"
    /\ IF ctxErr = Nil THEN pc' = "blocked"
       ELSE IF backoff > 0 THEN pc' = "woken"
       ELSE pc' \in {"woken", "blocked"}
    /\ UNCHANGED <<extraVars, readerVars, clsVars, verifyVars, cfgVars, attempt, backoff, err, result, ctxErr, logs, histVars>>

\* `case <-time.After(backoff):` the wait ends, then the backoff doubles
TimerFires ==
    /\ pc = "blocked"
    /\ waits' = Append(waits, backoff)
    /\ backoff' = NextBackoff(backoff)
    /\ pc' = "call"
    /\ UNCHANGED <<extraVars, readerVars, clsVars, verifyVars, cfgVars, attempt, err, result, ctxErr, logs,
                   calls, classified, firstErr, nTransient, cancelledAt>>

\* the caller cancels the context, or its deadline expires; an executor
\* blocked in the select is woken by ctx.Done()
CtxCancel ==
    /\ pc \in {"start", "call", "select", "blocked"}
    /\ ctxErr = Nil
    /\ ctxErr' \in CtxErrors
    /\ IF pc = "blocked"
       THEN pc' = "woken" /\ cancelledAt' = calls
       ELSE UNCHANGED <<pc, cancelledAt>>
    /\ UNCHANGED <<extraVars, readerVars, clsVars, verifyVars, cfgVars, attempt, backoff, err, result, logs,
                   calls, waits, classified, firstErr, nTransient>>

\* `case <-ctx.Done(): return logging.NewOperationError(operation, requestID, ctx.Err())`
ReturnCancelled ==
    /\ pc = "woken"
    /\ result' = CancelledResult(operation, requestID, ctxErr)
    /\ pc' = "done"
    /\ UNCHANGED <<extraVars, readerVars, clsVars, verifyVars, cfgVars, attempt, backoff, err, ctxErr, logs, histVars>>

\* `err = fn()` and what follows it in the loop body: return nil, return the
\* wrapped error, or warn and go round again (attempt++, then the select)
CallFn ==
    /\ pc = "call"
    /\ \E e \in FnResults :
          /\ err' = e
          /\ Invoked(e)
          /\ classified' = IF e = Nil THEN classified ELSE classified + 1
          /\ CASE AttemptOutcome(layer, e, attempt) = "ok" ->
                  /\ logs' = IF attempt > 0
                             THEN Append(logs, Log("info", attempt + 1))
                             ELSE logs
                  /\ result' = Nil
                  /\ pc' = "done"
                  /\ UNCHANGED attempt
               [] AttemptOutcome(layer, e, attempt) = "fail" ->
                  /\ logs' = Append(logs, Log("error", attempt + 1))
                  /\ result' = NewOperationError(operation, requestID, e)
                  /\ pc' = "done"
                  /\ UNCHANGED attempt
               [] OTHER ->
                  /\ logs' = IF e = Nil THEN logs
                             ELSE Append(logs, Log("warn", attempt + 1))
                  /\ attempt' = attempt + 1
                  /\ pc' = "select"
                  /\ UNCHANGED result
    /\ UNCHANGED <<extraVars, readerVars, clsVars, verifyVars, cfgVars, backoff, ctxErr, waits, cancelledAt>>

NextRetry ==
    \/ RunSingle
    \/ EnterLoop
    \/ Select
    \/ TimerFires
    \/ CtxCancel
    \/ ReturnCancelled
    \/ CallFn

SpecRetry == InitRetry /\ [][NextRetry]_vars

----------------------------------------------------------------------------
(***************************************************************************)
(* Properties of the retry executors, checked under SpecRetry.             *)
(***************************************************************************)

\* the node NewOperationError puts in front of a cause
OperationNode == [kind |-> "OperationError", op |-> operation, rid |-> requestID]

Min(a, b) == IF a <= b THEN a ELSE b

RECURSIVE Pow2(_)
Pow2(n) == IF n <= 0 THEN 1 ELSE 2 * Pow2(n - 1)

\* C1: with attemptBudget >= 2, when fn fails with an error its executor's
\* classifier reports as non-transient, fn has been invoked exactly once, no
\* backoff wait has taken place and the executor has returned a non-nil error.
C1_NonTransientRunsOnce ==
    (/\ retryAttempts >= 2
     /\ calls >= 1
     /\ firstErr # Nil
     /\ ~isTransientError(layer, firstErr))
    => (/\ calls = 1
        /\ waits = <<>>
        /\ pc = "done"
        /\ result # Nil)

\* C1 witness: the cache executor with the largest budget stopped after one
\* invocation that failed with driver.ErrBadConn, which its classifier does
\* not report as transient.
C1_Witness ==
    /\ layer = "usecase"
    /\ retryAttempts = MaxAttempts
    /\ pc = "done"
    /\ calls = 1
    /\ firstErr = Err("ErrBadConn")
    /\ result # Nil

\* C2: with attemptBudget = n >= 2, a context that is never cancelled and an
\* fn that failed with a transient error on every invocation, the executor
\* returns only after exactly n invocations and n-1 waits, and what it returns
\* is the n-th invocation's error wrapped with the operation metadata.
C2_TransientExhaustsBudget ==
    (/\ pc = "done"
     /\ retryAttempts >= 2
     /\ ctxErr = Nil
     /\ nTransient = calls)
    => (/\ calls = retryAttempts
        /\ Len(waits) = retryAttempts - 1
        /\ err # Nil
        /\ result # Nil
        /\ Unwrap(result) = err)

\* C2 witness: the persistence executor used up the largest budget on
\* transient failures, the last of them a bad connection.
C2_Witness ==
    /\ layer = "repository"
    /\ pc = "done"
    /\ ctxErr = Nil
    /\ retryAttempts = MaxAttempts
    /\ nTransient = MaxAttempts
    /\ calls = MaxAttempts
    /\ err = Err("ErrBadConn")
    /\ firstErr = Err("transientTestError")

\* C3: with attemptBudget <= 1 (zero and negative budgets included) the
\* executor invokes fn exactly once, never waits and never consults the
\* classifier, whatever fn returns.
C3_BudgetOfOneRunsOnce ==
    (retryAttempts <= 1)
    => (/\ classified = 0
        /\ waits = <<>>
        /\ logs = <<>>
        /\ calls <= 1
        /\ (pc = "done" => calls = 1))

\* C3 witness: a negative budget, fn failed with a transient error, and the
\* executor has returned.
C3_Witness ==
    /\ retryAttempts = MinAttempts
    /\ pc = "done"
    /\ calls = 1
    /\ err = Err("transientTestError")

\* C4 (the claim as stated): every non-nil error an executor returns is an
\* OperationError carrying the operation name and the correlation id of the
\* call, whose Unwrap is the underlying cause: the error of the last fn
\* invocation, or ctx.Err() after a cancellation.  For every budget, both
\* executors.
C4_EveryErrorAnnotated ==
    (pc = "done" /\ result # Nil)
    => (/\ Head(result) = OperationNode
        /\ Unwrap(result) \in {err, ctxErr}
        /\ Unwrap(result) # Nil)

\* C5: when the context is cancelled (or its deadline expires) while the
\* executor is in a backoff wait, fn is not invoked again: the executor goes
\* straight to its return, and what it returns is ctx.Err() wrapped with the
\* operation name and the correlation id.
C5_CancelDuringWaitAborts ==
    (cancelledAt >= 0)
    => (/\ calls = cancelledAt
        /\ pc \in {"woken", "done"}
        /\ ctxErr # Nil
        /\ (pc = "done" => result = <<OperationNode>> \o ctxErr))

\* C5 witness: a deadline expired during the second wait, and the executor
\* has returned.
C5_Witness ==
    /\ cancelledAt = 2
    /\ pc = "done"
    /\ ctxErr = Err("DeadlineExceeded")
    /\ Len(waits) = 1

\* C6 (the claim as stated): the k-th completed wait lasts exactly
\* min(initialBackoff * 2^(k-1), maxBackoff), for every initialBackoff,
\* maxBackoff and budget.
C6_WaitIsCappedPowerOfTwo ==
    \A k \in 1..Len(waits) :
        waits[k] = Min(initialBackoff * Pow2(k - 1), maxBackoff)

\* C7: provided 0 < initialBackoff <= maxBackoff, the waits of one execution
\* are non-decreasing, none exceeds maxBackoff, and neither does the backoff
\* the executor holds for the next wait.
C7_WaitsMonotoneAndCapped ==
    (0 < initialBackoff /\ initialBackoff <= maxBackoff)
    => (/\ \A k \in 1..Len(waits) :
              /\ waits[k] <= maxBackoff
              /\ (k > 1 => waits[k - 1] <= waits[k])
        /\ (pc \in {"call", "select", "blocked", "woken"} => backoff <= maxBackoff))

\* C7 witness: three waits of 1, 2 and 2 ticks under a cap of 3.
C7_Witness ==
    /\ initialBackoff = 1
    /\ maxBackoff = 3
    /\ waits = <<1, 2, 2>>

----------------------------------------------------------------------------
(***************************************************************************)
(* Properties of the classifiers, checked under SpecClassify.              *)
(***************************************************************************)

\* the positions of a chain
Nodes(e) == 1..Len(e)

\* "is (or wraps)" one of: a deadline expiry, a context cancellation, a bad
\* connection, an error whose Timeout() says true, an error whose Temporary()
\* says true
StatedTransient(e) ==
    \E i \in Nodes(e) :
        \/ e[i].kind \in {"DeadlineExceeded", "Canceled", "ErrBadConn"}
        \/ TimeoutSays(e[i].kind)
        \/ TemporarySays(e[i].kind)

\* the outermost error of the chain that exposes Timeout() says true
OutermostTimeoutSaysTrue(e) ==
    \E i \in Nodes(e) :
        /\ TimeoutSays(e[i].kind)
        /\ \A j \in 1..(i - 1) : ~HasTimeout(e[j].kind)

\* the outermost error of the chain that exposes Temporary() says true
OutermostTemporarySaysTrue(e) ==
    \E i \in Nodes(e) :
        /\ TemporarySays(e[i].kind)
        /\ \A j \in 1..(i - 1) : ~HasTemporary(e[j].kind)

AmendedTransient(e) ==
    \/ \E i \in Nodes(e) : e[i].kind \in {"DeadlineExceeded", "ErrBadConn"}
    \/ OutermostTimeoutSaysTrue(e)
    \/ OutermostTemporarySaysTrue(e)

\* C9 (the claim as stated): repository.isTransientError returns true exactly
\* when the error is or wraps a deadline expiry, a context cancellation, a
\* network-level timeout, a bad connection or an error with temporary
\* semantics, and false for nil and every other error.
C9_ClassifierAsStated ==
    (repoVerdict # "none")
    => (repoVerdict = "true" <=> StatedTransient(clsErr))

\* C9 (amended): repository.isTransientError returns true exactly when the
\* error is or wraps a deadline expiry or a driver-reported bad connection,
\* or the outermost error of its chain exposing Timeout() reports a timeout,
\* or the outermost one exposing Temporary() reports temporary; it returns
\* false for nil, for a context cancellation, for not-found, for uniqueness
\* violations and for every other error.
C9_ClassifierAmended ==
    (repoVerdict # "none")
    => (/\ repoVerdict = "true" <=> AmendedTransient(clsErr)
        /\ (\A i \in Nodes(clsErr) :
               clsErr[i].kind \in {"Wrapf", "Canceled", "ErrRecordNotFound",
                                   "DuplicateKey", "RedisNil", "Boom"})
           => repoVerdict = "false")

\* C9 witness: a wrapped context cancellation has been classified as not
\* transient.
C9_Witness ==
    /\ clsErr = <<Leaf("Wrapf"), Leaf("Canceled")>>
    /\ repoVerdict = "false"

\* C10 (the claim as stated): on every error the persistence classifier and
\* the cache classifier return the same verdict.
C10_ClassifiersAgree ==
    (repoVerdict # "none" /\ ucVerdict # "none") => repoVerdict = ucVerdict

----------------------------------------------------------------------------
(***************************************************************************)
(* SpecVerify: concurrent VerifyImage calls on one use case.               *)
(*                                                                         *)
(* The use case and the repository are those the constructors build:       *)
(* retryAttempts = 3 in both, with positive backoffs (50 ms and 100 ms at  *)
(* first), whose durations are not tracked here.  The cache, the scorer    *)
(* and the database are the environment: every cache.Set, Process and      *)
(* db.Create either takes effect or fails with one of the listed errors.   *)
(*                                                                         *)
(* A context is read only in the select of a backoff wait, and the timer   *)
(* there has a positive duration: a context that is done when the select   *)
(* is reached, or becomes done during the wait, makes the executor return. *)
(* Both are the one step WaitCancelled.                                    *)
(***************************************************************************)

Requests == 1..MaxRequests

\* uuid.NewString(): a fresh identifier for every call
UUIDs == <<"uuid-1", "uuid-2", "uuid-3", "uuid-4">>

Users == {"user-1", "user-2"}

Images == {"img-a", "img-b"}

\* the (userID, imageBytes) a call is made with: the first call fixes a user
\* and an image, the others take any
Inputs(r) == IF r = 1 THEN {<<"user-1", "img-a">>} ELSE Users \X Images

\* hex.EncodeToString(sha1.Sum(imageBytes)): a digest of the bytes alone
Sha1Hex(b) ==
    CASE b = "img-a" -> "be8b5c5405159aa625444a97f723c396b3c604b2"
      [] b = "img-b" -> "31ecd80770592d62bba6ede050e6ac24c69e0f7c"
      [] OTHER -> "da39a3ee5e6b4b0d3255bfef95601890afd80709"

\* fmt.Sprintf("verification:%s", requestID)
CacheKey(rid) == <<"verification:", rid>>

CacheKeys == { CacheKey(UUIDs[r]) : r \in Requests }

\* imageprocessor.Result values the scorer may return
ScorerResults ==
    { [success |-> TRUE,  score |-> "0.9", message |-> "match"],
      [success |-> FALSE, score |-> "NaN", message |-> "unreadable"] }

NoResult == [success |-> FALSE, score |-> "", message |-> ""]

\* errors of the collaborators
CacheErrors == { Err("transientTestError"), Err("Boom") }

ProcessErrors == { Err("transientTestError"), Err("Boom") }

DbErrors == { Err("ErrBadConn"), Err("Boom") }

\* what ctx.Err() of a call's context is once it is done
CallCtxErrors == { Err("Canceled") }

\* fmt.Sprintf("status:%t score:%f hash:%s", ...)
Details(res, hash) == [status |-> res.success, score |-> res.score, hash |-> hash]

NoDetails == [status |-> FALSE, score |-> "", hash |-> ""]

\* C25 mutant: the digest is salted with the owner of the record
C25_MutantSaltedWithUser(req, res, now) ==
    [requestID |-> req.requestID,
     userID    |-> req.userID,
     score     |-> res.score,
     success   |-> res.success,
     createdAt |-> now,
     sha1Hash  |-> IF req.userID = "user-1" THEN Sha1Hex(req.imageBytes) ELSE Sha1Hex(""),
     details   |-> Details(res, Sha1Hex(req.imageBytes))]

\* repository.VerificationLog as VerifyImage fills it
NewLog(req, res, now) ==
    [requestID |-> req.requestID,
     userID    |-> req.userID,
     score     |-> res.score,
     success   |-> res.success,
     createdAt |-> now,
     sha1Hash  |-> Sha1Hex(req.imageBytes),
     details   |-> Details(res, Sha1Hex(req.imageBytes))]

NoLog ==
    [requestID |-> "", userID |-> "", score |-> "", success |-> FALSE,
     createdAt |-> 0, sha1Hash |-> "", details |-> NoDetails]

NoRequest == [requestID |-> "", userID |-> "", imageBytes |-> ""]

\* C27 mutant: the snapshot is built without the owner of the record
C27_MutantSnapshotDropsOwner(log) ==
    [requestID |-> log.requestID,
     userID    |-> "",
     score     |-> log.score,
     success   |-> log.success,
     details   |-> log.details,
     hash      |-> log.sha1Hash,
     createdAt |-> log.createdAt]

\* cachedVerification built from the saved log
Snapshot(log) ==
    [requestID |-> log.requestID,
     userID    |-> log.userID,
     score     |-> log.score,
     success   |-> log.success,
     details   |-> log.details,
     hash      |-> log.sha1Hash,
     createdAt |-> log.createdAt]

NoSnapshot ==
    [requestID |-> "", userID |-> "", score |-> "", success |-> FALSE,
     details |-> NoDetails, hash |-> "", createdAt |-> 0]

\* json.Marshal(cached) fails on a float that JSON cannot represent
MarshalFails(snap) == snap.score = "NaN"

\* cache entries: the "processing" marker (time.Minute), or the serialized
\* snapshot (5*time.Minute); ttl in minutes
NoEntry == [text |-> "", payload |-> NoSnapshot, ttl |-> 0]

ProcessingEntry == [text |-> "processing", payload |-> NoSnapshot, ttl |-> 1]

SnapshotEntry(snap) == [text |-> "json", payload |-> snap, ttl |-> 5]

\* C18 mutant: a table with the request_id index only
C18_MutantRequestIdOnly(log) ==
    \E i \in 1..Len(store) : store[i].requestID = log.requestID

\* the unique indexes of verification_logs.  AutoMigrate, run at start-up,
\* builds them from the gorm tags: `uniqueIndex` on request_id, and
\* `uniqueIndex:idx_verification_logs_user_hash`, a name that only the
\* sha1_hash column carries, so that index covers sha1_hash alone.  The SQL
\* migration adds verification_logs_user_hash_uq on (user_id, sha1_hash).
Conflicts(log) ==
    \E i \in 1..Len(store) :
        \/ store[i].requestID = log.requestID
        \/ store[i].sha1Hash = log.sha1Hash
        \/ (store[i].userID = log.userID /\ store[i].sha1Hash = log.sha1Hash)

\* the executor a step runs in, and the operation name it is given
ExecLayer(step) ==
    IF step \in {"save_log", "find", "dups"} THEN "repository" ELSE "usecase"

ExecOp(step) ==
    CASE step = "set_processing" -> "cache.set.processing"
      [] step = "save_log" -> "repository.save_log"
      [] step = "cache_get" -> "cache.get.result"
      [] step = "find" -> "repository.find_by_request_and_user"
      [] step = "dups" -> "repository.find_duplicates_by_hash"
      [] OTHER -> "cache.set.result"

\* C12 mutant: the step's failure is not tested, the call goes on as if the
\* executor had returned nil
C12_MutantIgnoresFailure(step, e, a) ==
    IF NoRetry THEN "ok"
    ELSE IF AttemptOutcome(ExecLayer(step), e, a) = "retry" THEN "retry" ELSE "ok"

\* C26 mutant: the error of SaveLog is not tested, the call goes on to the
\* snapshot
C26_MutantSaveErrorIgnored(step, e, a) ==
    IF NoRetry THEN (IF e = Nil \/ step = "save_log" THEN "ok" ELSE "fail")
    ELSE IF step = "save_log" /\ AttemptOutcome(ExecLayer(step), e, a) = "fail" THEN "ok"
    ELSE AttemptOutcome(ExecLayer(step), e, a)

\* C21 mutant: the uniqueness violation reported by Create is not treated as
\* a failure of the save
C21_MutantConflictIgnored(step, e, a) ==
    IF e = Err("DuplicateKey") THEN "ok"
    ELSE IF NoRetry THEN (IF e = Nil THEN "ok" ELSE "fail")
    ELSE AttemptOutcome(ExecLayer(step), e, a)

\* C36 mutant: a Create that succeeded on the first attempt is retried
C36_MutantRetriesAfterInsert(step, e, a) ==
    IF step = "save_log" /\ e = Nil /\ a = 0 THEN "retry"
    ELSE IF NoRetry THEN (IF e = Nil THEN "ok" ELSE "fail")
    ELSE AttemptOutcome(ExecLayer(step), e, a)

\* what the executor does with the result e of fn() on attempt a
ExecOutcome(step, e, a) ==
    IF NoRetry THEN (IF e = Nil THEN "ok" ELSE "fail")
    ELSE AttemptOutcome(ExecLayer(step), e, a)

\* the error the executor returns for the fn() error e
ExecError(step, rid, e) ==
    IF NoRetry THEN SingleAttemptResult(ExecLayer(step), ExecOp(step), rid, e)
    ELSE NewOperationError(ExecOp(step), rid, e)

\* the error VerifyImage returns for the executor's error x
StepError(step, rid, x) ==
    IF step = "save_log" THEN NewOperationError("usecase.save_log", rid, x) ELSE x

Failure(e) == [requestID |-> "", hasResult |-> FALSE, result |-> NoResult, err |-> e]

Success(rid, res) == [requestID |-> rid, hasResult |-> TRUE, result |-> res, err |-> Nil]

NotReturned == [requestID |-> "", hasResult |-> FALSE, result |-> NoResult, err |-> Nil]

InitVerify ==
    /\ ExtraAtRest
    /\ ReadAtRest
    /\ ClassifyAtRest
    /\ RetryAtRest
    /\ vpc = [r \in Requests |-> "idle"]
    /\ sub = [r \in Requests |-> "none"]
    /\ att = [r \in Requests |-> 0]
    /\ vctx = [r \in Requests |-> Nil]
    /\ vreq = [r \in Requests |-> NoRequest]
    /\ vres = [r \in Requests |-> NoResult]
    /\ vlog = [r \in Requests |-> NoLog]
    /\ vret = [r \in Requests |-> NotReturned]
    /\ cache = [k \in CacheKeys |-> NoEntry]
    /\ store = <<>>
    /\ clock = 1
    /\ markerSets = [r \in Requests |-> <<>>]
    /\ setKeys = [r \in Requests |-> {}]
    /\ creates = [r \in Requests |-> <<>>]
    /\ scorerCalls = [r \in Requests |-> 0]

\* the call moves on to the next step, whose executor starts at attempt 0
Goto(r, step) ==
    /\ vpc' = [vpc EXCEPT ![r] = step]
    /\ sub' = [sub EXCEPT ![r] = "call"]
    /\ att' = [att EXCEPT ![r] = 0]

\* the call returns
Return(r, ret) ==
    /\ vret' = [vret EXCEPT ![r] = ret]
    /\ vpc' = [vpc EXCEPT ![r] = "returned"]
    /\ sub' = [sub EXCEPT ![r] = "none"]
    /\ att' = [att EXCEPT ![r] = 0]

\* the executor goes round its loop: attempt++, then the select
Retry(r) ==
    /\ att' = [att EXCEPT ![r] = @ + 1]
    /\ sub' = [sub EXCEPT ![r] = "blocked"]
    /\ UNCHANGED vpc

\* VerifyImage is called: requestID := uuid.NewString(), cacheKey, and the
\* cache.set.processing executor is entered
VerifyImage(r) ==
    /\ vpc[r] = "idle"
    /\ \E in \in Inputs(r) :
          vreq' = [vreq EXCEPT ![r] =
                      [requestID |-> UUIDs[r], userID |-> in[1], imageBytes |-> in[2]]]
    /\ Goto(r, "set_processing")
    /\ UNCHANGED <<extraVars, readerVars, clsVars, retryVars, vctx, vres, vlog, vret, worldVars, traceVars>>

\* one uc.cache.Set(ctx, cacheKey, "processing", time.Minute) inside
\* withRedisRetry, and what the executor and VerifyImage do with its result
SetProcessing(r) ==
    /\ vpc[r] = "set_processing"
    /\ sub[r] = "call"
    /\ \E e \in CacheErrors \cup {Nil} :
          /\ cache' = IF e = Nil
                      THEN [cache EXCEPT ![CacheKey(vreq[r].requestID)] = ProcessingEntry]
                      ELSE cache
          /\ markerSets' = [markerSets EXCEPT ![r] = Append(@, e)]
          /\ setKeys' = [setKeys EXCEPT ![r] = @ \cup {CacheKey(vreq[r].requestID)}]
          /\ CASE ExecOutcome("set_processing", e, att[r]) = "ok" ->
                  Goto(r, "process") /\ UNCHANGED vret
               [] ExecOutcome("set_processing", e, att[r]) = "fail" ->
                  Return(r, Failure(ExecError("set_processing", vreq[r].requestID, e)))
               [] OTHER ->
                  Retry(r) /\ UNCHANGED vret
    /\ UNCHANGED <<extraVars, readerVars, clsVars, retryVars, vctx, vreq, vres, vlog, store, clock,
                   creates, scorerCalls>>

\* C29 mutant: a transient scorer error makes VerifyImage call the scorer again
C29_MutantRetriesTransient(e) ==
    IF isTransientError("usecase", e) THEN "retry" ELSE "abort"

\* what VerifyImage does with a scorer error: `if err != nil { ... return }`,
\* whatever the error.  No branch calls the scorer again ("retry")
AfterScorerError(e) == "abort"

\* uc.processor.Process(ctx, userID, imageBytes) is invoked and returns; on
\* success the digest is computed and the log is built with time.Now()
Process(r) ==
    /\ vpc[r] = "process"
    /\ scorerCalls' = [scorerCalls EXCEPT ![r] = @ + 1]
    /\ \/ \E res \in ScorerResults :
             /\ vres' = [vres EXCEPT ![r] = res]
             /\ vlog' = [vlog EXCEPT ![r] = NewLog(vreq[r], res, clock)]
             /\ clock' = clock + 1
             /\ Goto(r, "save_log")
             /\ UNCHANGED vret
       \/ \E e \in ProcessErrors :
             /\ IF AfterScorerError(e) = "abort"
                THEN Return(r, Failure(NewOperationError("usecase.grpc_process_image",
                                                         vreq[r].requestID, e)))
                ELSE UNCHANGED <<vpc, sub, att, vret>>
             /\ UNCHANGED <<vres, vlog, clock>>
    /\ UNCHANGED <<extraVars, readerVars, clsVars, retryVars, vctx, vreq, cache, store,
                   markerSets, setKeys, creates>>

\* one r.db.Create(log) inside executeWithRetry, and what the executor,
\* SaveLog and VerifyImage do with its result; on success the snapshot is
\* serialized and the cache.set.result executor is entered
SaveLog(r) ==
    /\ vpc[r] = "save_log"
    /\ sub[r] = "call"
    /\ \E e \in DbErrors \cup (IF Conflicts(vlog[r]) THEN {Err("DuplicateKey")} ELSE {Nil}) :
          /\ store' = IF e = Nil THEN Append(store, vlog[r]) ELSE store
          /\ creates' = [creates EXCEPT ![r] = Append(@, e)]
          /\ CASE ExecOutcome("save_log", e, att[r]) = "ok" ->
                  IF MarshalFails(Snapshot(vlog[r]))
                  THEN Return(r, Failure(Err("UnsupportedValueError")))
                  ELSE Goto(r, "set_result") /\ UNCHANGED vret
               [] ExecOutcome("save_log", e, att[r]) = "fail" ->
                  Return(r, Failure(StepError("save_log", vreq[r].requestID,
                                              ExecError("save_log", vreq[r].requestID, e))))
               [] OTHER ->
                  Retry(r) /\ UNCHANGED vret
    /\ UNCHANGED <<extraVars, readerVars, clsVars, retryVars, vctx, vreq, vres, vlog, cache, clock,
                   markerSets, setKeys, scorerCalls>>

\* one uc.cache.Set(ctx, cacheKey, string(serialized), 5*time.Minute) inside
\* withRedisRetry; on success VerifyImage returns (requestID, result, nil)
SetResult(r) ==
    /\ vpc[r] = "set_result"
    /\ sub[r] = "call"
    /\ \E e \in CacheErrors \cup {Nil} :
          /\ cache' = IF e = Nil
                      THEN [cache EXCEPT ![CacheKey(vreq[r].requestID)] =
                               SnapshotEntry(Snapshot(vlog[r]))]
                      ELSE cache
          /\ setKeys' = [setKeys EXCEPT ![r] = @ \cup {CacheKey(vreq[r].requestID)}]
          /\ CASE ExecOutcome("set_result", e, att[r]) = "ok" ->
                  Return(r, Success(vreq[r].requestID, vres[r]))
               [] ExecOutcome("set_result", e, att[r]) = "fail" ->
                  Return(r, Failure(ExecError("set_result", vreq[r].requestID, e)))
               [] OTHER ->
                  Retry(r) /\ UNCHANGED vret
    /\ UNCHANGED <<extraVars, readerVars, clsVars, retryVars, vctx, vreq, vres, vlog, store, clock,
                   markerSets, creates, scorerCalls>>

\* `case <-time.After(backoff):` the wait ends and fn is invoked again
WaitTimerFires(r) ==
    /\ sub[r] = "blocked"
    /\ sub' = [sub EXCEPT ![r] = "call"]
    /\ UNCHANGED <<extraVars, readerVars, clsVars, retryVars, vpc, att, vctx, vreq, vres, vlog, vret,
                   worldVars, traceVars>>

\* `case <-ctx.Done():` the call's context is done; the executor returns
\* the wrapped ctx.Err(), and VerifyImage returns with it
WaitCancelled(r) ==
    /\ sub[r] = "blocked"
    /\ vctx[r] = Nil
    /\ \E c \in CallCtxErrors :
          /\ vctx' = [vctx EXCEPT ![r] = c]
          /\ Return(r, Failure(StepError(vpc[r], vreq[r].requestID,
                                  CancelledResult(ExecOp(vpc[r]), vreq[r].requestID, c))))
    /\ UNCHANGED <<extraVars, readerVars, clsVars, retryVars, vreq, vres, vlog, worldVars, traceVars>>

NextVerify ==
    \E r \in Requests :
        \/ VerifyImage(r)
        \/ SetProcessing(r)
        \/ Process(r)
        \/ SaveLog(r)
        \/ SetResult(r)
        \/ WaitTimerFires(r)
        \/ WaitCancelled(r)

SpecVerify == InitVerify /\ [][NextVerify]_vars

----------------------------------------------------------------------------
(***************************************************************************)
(* Properties of VerifyImage, checked under SpecVerify.                    *)
(***************************************************************************)

\* the records of the store that carry the request id of call r
SavedBy(r) == { i \in 1..Len(store) : store[i].requestID = vreq[r].requestID }

\* the first k cache.Set("processing") invocations of call r failed with a
\* transient error and invocation k+1 succeeded
MarkerSetAfter(r, k) ==
    /\ Len(markerSets[r]) > k
    /\ \A i \in 1..k : isTransientError("usecase", markerSets[r][i])
    /\ markerSets[r][k + 1] = Nil

StepOrder ==
    { <<"idle", "set_processing">>,
      <<"set_processing", "process">>,
      <<"process", "save_log">>,
      <<"save_log", "set_result">>,
      <<"set_result", "returned">>,
      <<"set_processing", "returned">>,
      <<"process", "returned">>,
      <<"save_log", "returned">> }

\* C12: a VerifyImage call passes through its steps only in the order
\* Created -> ProcessingMarked -> Scored -> Persisted -> Cached.  It reaches
\* the scorer only in the step in which the "processing" marker was written
\* successfully, the save only when the scorer has returned a result, the
\* snapshot write only in the step in which its record was inserted, and it
\* returns success only when the snapshot was written.  Its record is
\* inserted only by its save step and its snapshot only by its snapshot
\* step.  A step that fails makes the call return an error (Aborted), and a
\* call that has returned executes nothing more: no field of it, no record
\* of it and no cache entry of it changes.
C12_StepsInOrder ==
    [][\A r \in Requests :
        LET key == CacheKey(vreq'[r].requestID)
            moved == vpc'[r] # vpc[r]
        IN  /\ moved => <<vpc[r], vpc'[r]>> \in StepOrder
            /\ (moved /\ vpc'[r] = "process") =>
                   /\ markerSets'[r][Len(markerSets'[r])] = Nil
                   /\ cache'[key] = ProcessingEntry
            /\ (moved /\ vpc'[r] = "save_log") =>
                   /\ vres'[r] \in ScorerResults
                   /\ store' = store
            /\ (moved /\ vpc'[r] = "set_result") =>
                   /\ store' = Append(store, vlog[r])
                   /\ cache'[key] = ProcessingEntry
            /\ (moved /\ vpc'[r] = "returned") =>
                   IF vpc[r] = "set_result" /\ cache'[key] = SnapshotEntry(Snapshot(vlog[r]))
                   THEN vret'[r] = Success(vreq[r].requestID, vres[r])
                   ELSE vret'[r].err # Nil /\ cache'[key] = cache[key]
            /\ (vpc[r] # "idle" /\ SavedBy(r)' # SavedBy(r)) => vpc[r] = "save_log"
            /\ (vpc[r] # "idle" /\ cache'[key] # cache[key]) =>
                   \/ vpc[r] = "set_processing" /\ cache'[key] = ProcessingEntry
                   \/ vpc[r] = "set_result" /\ cache'[key].text = "json"
            /\ vpc[r] = "returned" =>
                   /\ <<vpc[r], sub[r], att[r], vctx[r], vreq[r], vres[r], vlog[r], vret[r]>>' =
                      <<vpc[r], sub[r], att[r], vctx[r], vreq[r], vres[r], vlog[r], vret[r]>>
                   /\ SavedBy(r)' = SavedBy(r)
                   /\ cache'[key] = cache[key]
                   /\ markerSets'[r] = markerSets[r]
                   /\ setKeys'[r] = setKeys[r]
      ]_vars

\* C12 witness: one call went through every step and returned success, and
\* another was aborted by its scorer: its marker is written, nothing of it is
\* saved and no snapshot of it is cached
C12_Witness ==
    \E r1, r2 \in Requests :
        /\ vpc[r1] = "returned" /\ vret[r1].err = Nil
        /\ Cardinality(SavedBy(r1)) = 1
        /\ cache[CacheKey(vreq[r1].requestID)] = SnapshotEntry(Snapshot(vlog[r1]))
        /\ vpc[r2] = "returned"
        /\ vret[r2].err # Nil
        /\ vret[r2].err[1].op = "usecase.grpc_process_image"
        /\ SavedBy(r2) = {}
        /\ cache[CacheKey(vreq[r2].requestID)] = ProcessingEntry

\* the operation name VerifyImage gives to the error of each step
StepTag(step) ==
    CASE step = "set_processing" -> "cache.set.processing"
      [] step = "process" -> "usecase.grpc_process_image"
      [] step = "save_log" -> "usecase.save_log"
      [] OTHER -> "cache.set.result"

\* C13: when VerifyImage aborts, the returned error is an operation error
\* whose operation names the step the call was in (cache.set.processing,
\* grpc_process_image, save_log, cache.set.result) and whose correlation id
\* is the call's requestID, and the call returns no requestID and no result.
C13_AbortNamesFailedStep ==
    [][\A r \in Requests :
        (vpc[r] # "returned" /\ vpc'[r] = "returned" /\ vret'[r].err # Nil) =>
            /\ vret'[r].err[1].kind = "OperationError"
            /\ vret'[r].err[1].op = StepTag(vpc[r])
            /\ vret'[r].err[1].rid = vreq[r].requestID
            /\ vret'[r].requestID = ""
            /\ ~vret'[r].hasResult
      ]_vars

\* the stored records with the owner and the fingerprint of log
SamePair(log) ==
    { i \in 1..Len(store) :
        store[i].userID = log.userID /\ store[i].sha1Hash = log.sha1Hash }

\* C18: in every reachable state of the store no two records have the same
\* (userID, fingerprint) pair and no two records have the same requestID.
C18_StoreKeysUnique ==
    \A i, j \in 1..Len(store) :
        i # j =>
            /\ store[i].requestID # store[j].requestID
            /\ ~(store[i].userID = store[j].userID /\ store[i].sha1Hash = store[j].sha1Hash)

\* C18 witness: a second call of a user with the bytes of a stored record of
\* that user was refused by the store, which still holds the one record
C18_Witness ==
    \E r \in Requests :
        /\ vpc[r] = "returned"
        /\ ErrorsIs(vret[r].err, "DuplicateKey")
        /\ Len(store) = 1
        /\ SamePair(vlog[r]) = {1}
        /\ store[1].requestID # vreq[r].requestID

\* C19: a Create of a record with a fresh requestID is rejected with a
\* uniqueness violation only if a stored record has its (userID, fingerprint)
\* pair, is never accepted if one has, and whenever the database answers (the
\* record is inserted or the violation is reported) the violation is reported
\* exactly when such a record exists; an accepted record is appended as built.
C19_ConflictIffSamePair ==
    [][\A r \in Requests :
        (vpc[r] = "save_log" /\ sub[r] = "call") =>
            LET rejected == /\ vpc'[r] = "returned"
                            /\ ErrorsIs(vret'[r].err, "DuplicateKey")
                inserted == SavedBy(r)' # SavedBy(r)
            IN  /\ rejected => SamePair(vlog[r]) # {}
                /\ SamePair(vlog[r]) # {} => ~inserted
                /\ inserted => SamePair(vlog[r]) = {} /\ store' = Append(store, vlog[r])
                /\ (rejected \/ inserted) => (rejected <=> SamePair(vlog[r]) # {})
      ]_vars

----------------------------------------------------------------------------
(***************************************************************************)
(* SpecRead: one GetResult or GetDuplicateReport call.                     *)
(*                                                                         *)
(* The call finds the store and the cache in a state VerifyImage calls can *)
(* have left them in: records that respect the unique indexes, and under   *)
(* each key nothing (never written, or expired), the "processing" marker,  *)
(* or the snapshot of the stored record of that request.  The budgets are  *)
(* the constructors' (3), the backoffs positive.  As in SpecVerify the     *)
(* context is observed in the select of a backoff wait; a database query   *)
(* made with a context that is done returns ctx.Err().                     *)
(***************************************************************************)

\* the records of request slot i that a VerifyImage call can have stored
StoredLogs(i) ==
    { NewLog([requestID |-> UUIDs[i], userID |-> u, imageBytes |-> b], res, t) :
        u \in Users, b \in Images, res \in ScorerResults, t \in 1..MaxStored }

\* s respects the unique indexes, and its creation times are distinct
WellKeyed(s) ==
    \A i, j \in 1..Len(s) :
        i # j => /\ s[i].requestID # s[j].requestID
                 /\ s[i].sha1Hash # s[j].sha1Hash
                 /\ s[i].createdAt # s[j].createdAt

Stores ==
    UNION { { s \in [1..n -> UNION { StoredLogs(i) : i \in 1..MaxStored }] :
                /\ \A i \in 1..n : s[i] \in StoredLogs(i)
                /\ WellKeyed(s) } : n \in 0..MaxStored }

\* the entries the key of request slot i can hold when the store is s
EntriesFor(s, i) ==
    {NoEntry, ProcessingEntry} \cup
    (IF i <= Len(s) /\ ~MarshalFails(Snapshot(s[i]))
     THEN {SnapshotEntry(Snapshot(s[i]))} ELSE {})

\* C17 mutant: the cached value is taken as a snapshot without a decode check
C17_MutantNoDecodeCheck(entry) == TRUE

\* json.Unmarshal([]byte(cached), &payload) succeeds
Decodes(entry) == entry.text = "json"

\* C14 mutant: the view keeps the lookup arguments as owner and request id
C14_MutantArgumentsWin(payload, uid, rid) ==
    [requestID |-> rid,
     userID    |-> uid,
     score     |-> payload.score,
     success   |-> payload.success,
     createdAt |-> payload.createdAt,
     sha1Hash  |-> payload.hash,
     details   |-> payload.details]

\* C35 mutant: the cached ids replace the lookup arguments even when empty
C35_MutantCachedIdsAlwaysWin(payload, uid, rid) ==
    [requestID |-> payload.requestID,
     userID    |-> payload.userID,
     score     |-> payload.score,
     success   |-> payload.success,
     createdAt |-> payload.createdAt,
     sha1Hash  |-> payload.hash,
     details   |-> payload.details]

\* the VerificationLog GetResult builds from the decoded payload
CachedView(payload, uid, rid) ==
    [requestID |-> IF payload.requestID # "" THEN payload.requestID ELSE rid,
     userID    |-> IF payload.userID # "" THEN payload.userID ELSE uid,
     score     |-> payload.score,
     success   |-> payload.success,
     createdAt |-> payload.createdAt,
     sha1Hash  |-> payload.hash,
     details   |-> payload.details]

\* First(&log, "request_id = ? AND user_id = ?", requestID, userID)
FirstMatch(rid, uid) ==
    { i \in 1..Len(store) : store[i].requestID = rid /\ store[i].userID = uid }

\* C23 mutant: the duplicate query without its `request_id <> ?` condition
C23_MutantNoExclusion(uid, hash, excl) ==
    { i \in 1..Len(store) :
        /\ store[i].sha1Hash = hash
        /\ (uid # "" => store[i].userID = uid) }

\* C22 mutant: the duplicate query applies no owner condition
C22_MutantAnyOwner(uid, hash, excl) ==
    { i \in 1..Len(store) :
        /\ store[i].sha1Hash = hash
        /\ (excl # "" => store[i].requestID # excl) }

\* the rows the query of FindDuplicatesByHash selects
DuplicateRows(uid, hash, excl) ==
    { i \in 1..Len(store) :
        /\ store[i].sha1Hash = hash
        /\ (uid # "" => store[i].userID = uid)
        /\ (excl # "" => store[i].requestID # excl) }

\* Order("created_at DESC") of the rows in S
RECURSIVE NewestFirst(_)
NewestFirst(S) ==
    IF S = {} THEN <<>>
    ELSE LET top == CHOOSE i \in S : \A j \in S : store[j].createdAt <= store[i].createdAt
         IN  <<store[top]>> \o NewestFirst(S \ {top})

\* the result of the query of FindDuplicatesByHash
FindDuplicatesByHash(uid, hash, excl) == NewestFirst(DuplicateRows(uid, hash, excl))

\* the row sequences Find(&logs) may deliver for that query: the selected
\* rows, each once, by created_at descending; rows with equal created_at
\* come in either order
FindDuplicatesResults(uid, hash, excl) ==
    LET S == DuplicateRows(uid, hash, excl)
        n == Cardinality(S)
    IN  { [k \in 1..n |-> store[f[k]]] :
            f \in { g \in [1..n -> S] :
                      /\ \A i, j \in 1..n : i # j => g[i] # g[j]
                      /\ \A i \in 1..n : \A j \in 1..n :
                            i < j => store[g[i]].createdAt >= store[g[j]].createdAt } }

NoReturn ==
    [log |-> NoLog, hasLog |-> FALSE, duplicates |-> <<>>, hasReport |-> FALSE, err |-> Nil]

LogReturn(log) ==
    [log |-> log, hasLog |-> TRUE, duplicates |-> <<>>, hasReport |-> FALSE, err |-> Nil]

ReportReturn(log, dups) ==
    [log |-> log, hasLog |-> TRUE, duplicates |-> dups, hasReport |-> TRUE, err |-> Nil]

ErrReturn(e) ==
    [log |-> NoLog, hasLog |-> FALSE, duplicates |-> <<>>, hasReport |-> FALSE, err |-> e]

\* (logs, nil) of a FindDuplicatesByHash call made on the repository itself
ListReturn(dups) ==
    [log |-> NoLog, hasLog |-> FALSE, duplicates |-> dups, hasReport |-> FALSE, err |-> Nil]

NoGet == [value |-> NoEntry, err |-> Nil, done |-> FALSE]

NoFind == [log |-> NoLog, err |-> Nil, done |-> FALSE]

InitRead ==
    /\ ExtraAtRest
    /\ ClassifyAtRest
    /\ RetryAtRest
    /\ vpc = <<>> /\ sub = <<>> /\ att = <<>> /\ vctx = <<>>
    /\ vreq = <<>> /\ vres = <<>> /\ vlog = <<>> /\ vret = <<>>
    /\ clock = 0
    /\ markerSets = <<>> /\ setKeys = <<>> /\ creates = <<>> /\ scorerCalls = <<>>
    /\ store \in Stores
    /\ cache \in { c \in [CacheKeys -> {NoEntry, ProcessingEntry} \cup
                            { SnapshotEntry(Snapshot(l)) : l \in UNION { StoredLogs(i) : i \in Requests } }] :
                     \A i \in Requests : c[CacheKey(UUIDs[i])] \in EntriesFor(store, i) }
    /\ rop = "none"
    /\ rpc = "idle"
    /\ rsub = "none"
    /\ ratt = 0
    /\ rctx = Nil
    /\ rarg = [userID |-> "", requestID |-> ""]
    /\ rlog = NoLog
    /\ rret = NoReturn
    /\ gets = <<>>
    /\ nFind = 0
    /\ nDups = 0
    /\ getRes = NoGet
    /\ findRes = NoFind

readRest == <<clsVars, retryVars, verifyVars, extraVars>>

\* the call moves on to the next step, whose executor starts at attempt 0
ReadGoto(step) ==
    /\ rpc' = step
    /\ rsub' = "call"
    /\ ratt' = 0

\* the call returns
ReadReturn(ret) ==
    /\ rret' = ret
    /\ rpc' = "returned"
    /\ rsub' = "none"
    /\ ratt' = 0

\* the executor goes round its loop: attempt++, then the select
ReadRetry ==
    /\ ratt' = ratt + 1
    /\ rsub' = "blocked"
    /\ UNCHANGED rpc

\* uc.repo.FindByRequestIDAndUser is called
CallFind ==
    /\ ReadGoto("find")
    /\ nFind' = nFind + 1

\* GetResult(ctx, userID, requestID) is called: cacheKey, then withRedisGet
GetResult ==
    /\ rpc = "idle"
    /\ \E uid \in Users, i \in Requests :
          rarg' = [userID |-> uid, requestID |-> UUIDs[i]]
    /\ rop' = "GetResult"
    /\ ReadGoto("cache_get")
    /\ UNCHANGED <<readRest, rctx, rlog, rret, readTrace>>

\* GetDuplicateReport(ctx, userID, requestID) is called
GetDuplicateReport ==
    /\ rpc = "idle"
    /\ \E uid \in Users, i \in Requests :
          rarg' = [userID |-> uid, requestID |-> UUIDs[i]]
    /\ rop' = "GetDuplicateReport"
    /\ CallFind
    /\ UNCHANGED <<readRest, rctx, rlog, rret, gets, nDups, getRes, findRes>>

\* C15 mutant: the distinguished miss ends the lookup with its error
C15_MutantMissIsFinal(value, e) ==
    IF e = Nil THEN (IF Decodes(value) THEN "hit" ELSE "store")
    ELSE IF ErrorsIs(e, "RedisNil") THEN "error" ELSE "store"

\* C16 mutant: a cache error other than the miss is returned to the caller
C16_MutantCacheErrorIsFatal(value, e) ==
    IF e = Nil THEN (IF Decodes(value) THEN "hit" ELSE "store")
    ELSE IF ErrorsIs(e, "RedisNil") THEN "store" ELSE "error"

\* what GetResult does with the (value, error) of withRedisGet: "hit", the
\* decoded snapshot is returned; "store", the lookup goes on to the
\* repository (after a warning, unless the error is redis.Nil).  No branch
\* of GetResult returns the cache's error ("error")
AfterCacheGet(value, e) ==
    IF e = Nil THEN (IF Decodes(value) THEN "hit" ELSE "store")
    ELSE "store"

\* withRedisGet has returned (value, e) to GetResult
CacheAnswered(value, e) ==
    /\ getRes' = [value |-> value, err |-> e, done |-> TRUE]
    /\ CASE AfterCacheGet(value, e) = "hit" ->
              /\ ReadReturn(LogReturn(CachedView(value.payload, rarg.userID, rarg.requestID)))
              /\ UNCHANGED nFind
         [] AfterCacheGet(value, e) = "store" ->
              /\ CallFind
              /\ UNCHANGED rret
         [] OTHER ->
              /\ ReadReturn(ErrReturn(e))
              /\ UNCHANGED nFind

\* one uc.cache.Get(ctx, cacheKey) inside withRedisGet, and what the
\* executor, withRedisGet and GetResult do with its result
CacheGet ==
    /\ rpc = "cache_get"
    /\ rsub = "call"
    /\ LET entry == cache[CacheKey(rarg.requestID)]
           answer == IF entry = NoEntry THEN Err("RedisNil") ELSE Nil
       IN  \E e \in CacheErrors \cup {answer} :
              /\ gets' = Append(gets, e)
              /\ CASE ExecOutcome("cache_get", e, ratt) = "ok" ->
                      CacheAnswered(entry, Nil)
                   [] ExecOutcome("cache_get", e, ratt) = "fail" ->
                      CacheAnswered(NoEntry, ExecError("cache_get", rarg.requestID, e))
                   [] OTHER ->
                      /\ ReadRetry
                      /\ UNCHANGED <<getRes, nFind, rret>>
    /\ UNCHANGED <<readRest, rop, rctx, rarg, rlog, nDups, findRes>>

\* C37 mutant: GetResult writes the record it loaded back into the cache
C37_MutantWritesBack(log) ==
    [cache EXCEPT ![CacheKey(log.requestID)] = SnapshotEntry(Snapshot(log))]

\* the cache after GetResult loaded a record from the store: `return log,
\* nil` follows the lookup, no cache.Set is made on this path
CacheAfterLoad(log) == cache

\* one r.db.First(...) inside executeWithRetry, and what the executor,
\* FindByRequestIDAndUser and its caller do with its result
Find ==
    /\ rpc = "find"
    /\ rsub = "call"
    /\ LET rows == FirstMatch(rarg.requestID, rarg.userID)
           answer == IF rows = {} THEN Err("ErrRecordNotFound") ELSE Nil
           found == IF rows = {} THEN NoLog ELSE store[CHOOSE i \in rows : TRUE]
       IN  \E e \in (IF rctx # Nil THEN {rctx} ELSE DbErrors \cup {answer}) :
              CASE ExecOutcome("find", e, ratt) = "ok" ->
                      /\ findRes' = [log |-> found, err |-> Nil, done |-> TRUE]
                      /\ IF rop = "GetResult"
                         THEN /\ ReadReturn(LogReturn(found))
                              /\ cache' = CacheAfterLoad(found)
                              /\ UNCHANGED <<rlog, nDups>>
                         ELSE /\ rlog' = found
                              /\ ReadGoto("dups")
                              /\ nDups' = nDups + 1
                              /\ UNCHANGED <<rret, cache>>
                [] ExecOutcome("find", e, ratt) = "fail" ->
                      /\ findRes' = [log |-> NoLog,
                                     err |-> ExecError("find", rarg.requestID, e),
                                     done |-> TRUE]
                      /\ ReadReturn(ErrReturn(ExecError("find", rarg.requestID, e)))
                      /\ UNCHANGED <<rlog, nDups, cache>>
                [] OTHER ->
                      /\ ReadRetry
                      /\ UNCHANGED <<findRes, rlog, nDups, rret, cache>>
    /\ UNCHANGED <<clsVars, retryVars, callVars, store, clock, traceVars, extraVars,
                   rop, rctx, rarg, gets, nFind, getRes>>

\* C38 mutant: GetDuplicateReport leaves the owner out of the query
C38_MutantNoOwnerPassed ==
    IF rop = "FindDuplicatesByHash"
    THEN [userID |-> rarg.userID, hash |-> rarg.sha1Hash, excl |-> rarg.requestID]
    ELSE [userID |-> "", hash |-> rlog.sha1Hash, excl |-> rlog.requestID]

\* the arguments FindDuplicatesByHash runs with: GetDuplicateReport passes
\* (userID, log.SHA1Hash, log.RequestID); a caller of the repository passes
\* its own
DupArgs ==
    IF rop = "FindDuplicatesByHash"
    THEN [userID |-> rarg.userID, hash |-> rarg.sha1Hash, excl |-> rarg.requestID]
    ELSE [userID |-> rarg.userID, hash |-> rlog.sha1Hash, excl |-> rlog.requestID]

\* what the caller of FindDuplicatesByHash returns when it delivers dups
DuplicatesReturn(dups) ==
    IF rop = "FindDuplicatesByHash" THEN ListReturn(dups) ELSE ReportReturn(rlog, dups)

\* one query of FindDuplicatesByHash inside executeWithRetry, and what the
\* method and GetDuplicateReport do with its result
FindDuplicates ==
    /\ rpc = "dups"
    /\ rsub = "call"
    /\ \E e \in (IF rctx # Nil THEN {rctx} ELSE DbErrors \cup {Nil}) :
          CASE ExecOutcome("dups", e, ratt) = "ok" ->
                  \E dups \in FindDuplicatesResults(DupArgs.userID, DupArgs.hash, DupArgs.excl) :
                      ReadReturn(DuplicatesReturn(dups))
            [] ExecOutcome("dups", e, ratt) = "fail" ->
                  ReadReturn(ErrReturn(ExecError("dups", DupArgs.excl, e)))
            [] OTHER ->
                  ReadRetry /\ UNCHANGED rret
    /\ UNCHANGED <<readRest, rop, rctx, rarg, rlog, readTrace>>

\* `case <-time.After(backoff):` the wait ends and fn is invoked again
ReadTimerFires ==
    /\ rsub = "blocked"
    /\ rsub' = "call"
    /\ UNCHANGED <<readRest, rop, rpc, ratt, rctx, rarg, rlog, rret, readTrace>>

\* `case <-ctx.Done():` the call's context is done; the executor returns the
\* wrapped ctx.Err().  GetResult takes it from withRedisGet as a cache error
\* and goes on to the store; the repository methods return it
ReadCancelled ==
    /\ rsub = "blocked"
    /\ rctx = Nil
    /\ \E c \in CallCtxErrors :
          /\ rctx' = c
          /\ LET x == CancelledResult(ExecOp(rpc), rarg.requestID, c)
             IN  CASE rpc = "cache_get" ->
                        /\ CacheAnswered(NoEntry, x)
                        /\ UNCHANGED findRes
                   [] rpc = "find" ->
                        /\ findRes' = [log |-> NoLog, err |-> x, done |-> TRUE]
                        /\ ReadReturn(ErrReturn(x))
                        /\ UNCHANGED <<getRes, nFind>>
                   [] OTHER ->
                        /\ ReadReturn(ErrReturn(x))
                        /\ UNCHANGED <<getRes, findRes, nFind>>
    /\ UNCHANGED <<readRest, rop, rarg, rlog, gets, nDups>>

NextRead ==
    \/ GetResult
    \/ GetDuplicateReport
    \/ CacheGet
    \/ Find
    \/ FindDuplicates
    \/ ReadTimerFires
    \/ ReadCancelled

SpecRead == InitRead /\ [][NextRead]_vars

----------------------------------------------------------------------------
(***************************************************************************)
(* Properties of the read path, checked under SpecRead.                    *)
(***************************************************************************)

\* what FindByRequestIDAndUser returned is what GetResult returned
ReturnedTheLookup ==
    /\ findRes.done
    /\ IF findRes.err = Nil
       THEN rret = LogReturn(findRes.log)
       ELSE rret = ErrReturn(findRes.err)

\* C11: a cache.Get that reports the key as not present (redis.Nil) is the
\* last Get of the lookup, so a lookup whose first Get reports the miss
\* invokes Get exactly once; withRedisGet returns the miss wrapped with the
\* operation cache.get.result and the request id, no value, and errors.Is
\* still recognises redis.Nil in what it returns.
C11_MissNotRetried ==
    \A i \in 1..Len(gets) :
        gets[i] = Err("RedisNil") =>
            /\ i = Len(gets)
            /\ rpc # "cache_get"
            /\ getRes.done
            /\ getRes.value = NoEntry
            /\ getRes.err # Nil
            /\ getRes.err[1] = [kind |-> "OperationError", op |-> "cache.get.result",
                                rid |-> rarg.requestID]
            /\ Unwrap(getRes.err) = Err("RedisNil")
            /\ ErrorsIs(getRes.err, "RedisNil")

\* C11 witness: the first Get reported the miss and withRedisGet has returned
C11_Witness ==
    /\ gets = <<Err("RedisNil")>>
    /\ getRes.done
    /\ ErrorsIs(getRes.err, "RedisNil")
    /\ getRes.err[1].kind = "OperationError"

\* C14: a GetResult to which the cache returned a well-formed snapshot of the
\* request returns the record view built from that snapshot (request id,
\* owner, score, outcome, details, fingerprint and creation time are the
\* snapshot's) and makes no call to the durable store.
C14_CacheHitSkipsStore ==
    (/\ rop = "GetResult"
     /\ getRes.done
     /\ getRes.err = Nil
     /\ getRes.value.text = "json")
    =>
    /\ rpc = "returned"
    /\ nFind = 0
    /\ ~findRes.done
    /\ rret.err = Nil
    /\ rret.hasLog
    /\ rret.log = [requestID |-> getRes.value.payload.requestID,
                   userID    |-> getRes.value.payload.userID,
                   score     |-> getRes.value.payload.score,
                   success   |-> getRes.value.payload.success,
                   createdAt |-> getRes.value.payload.createdAt,
                   sha1Hash  |-> getRes.value.payload.hash,
                   details   |-> getRes.value.payload.details]

\* C14 witness: a GetResult was answered from the cached snapshot of a
\* stored record, for a caller who is not that record's owner
C14_Witness ==
    /\ rop = "GetResult"
    /\ rpc = "returned"
    /\ getRes.value.text = "json"
    /\ nFind = 0
    /\ rret.hasLog
    /\ rret.log.requestID = rarg.requestID
    /\ rret.log.userID # rarg.userID

\* C15: a GetResult whose cache get ended with the distinguished miss calls
\* FindByRequestIDAndUser exactly once (never more, and once it has returned,
\* once) and returns exactly that call's record or error.
C15_MissFallsThrough ==
    (/\ rop = "GetResult"
     /\ getRes.done
     /\ ErrorsIs(getRes.err, "RedisNil"))
    =>
    /\ nFind = 1
    /\ rpc \in {"find", "returned"}
    /\ rpc = "returned" => ReturnedTheLookup

\* C15 witness: after a miss the record was loaded from the store and returned
C15_Witness ==
    /\ rop = "GetResult"
    /\ rpc = "returned"
    /\ gets = <<Err("RedisNil")>>
    /\ nFind = 1
    /\ rret.hasLog
    /\ rret.log \in { store[i] : i \in 1..Len(store) }

\* C16: a GetResult whose cache get failed with an error other than the
\* distinguished miss (a non-transient error, a transient one on the last
\* attempt, a cancelled wait) does not return that error: it calls
\* FindByRequestIDAndUser exactly once and returns exactly that call's
\* outcome, which when it is a record is the stored record of the request,
\* owned by the caller.
C16_CacheErrorFallsThrough ==
    (/\ rop = "GetResult"
     /\ getRes.done
     /\ getRes.err # Nil
     /\ ~ErrorsIs(getRes.err, "RedisNil"))
    =>
    /\ nFind = 1
    /\ rpc \in {"find", "returned"}
    /\ rpc = "returned" =>
          /\ ReturnedTheLookup
          /\ rret.err # getRes.err
          /\ rret.hasLog =>
                /\ rret.log \in { store[i] : i \in 1..Len(store) }
                /\ rret.log.requestID = rarg.requestID
                /\ rret.log.userID = rarg.userID

\* C16 witness: the cache failed on every attempt while it held a snapshot,
\* and the owner received the stored record
C16_Witness ==
    /\ rop = "GetResult"
    /\ rpc = "returned"
    /\ Len(gets) = retryAttempts
    /\ getRes.err # Nil
    /\ cache[CacheKey(rarg.requestID)].text = "json"
    /\ rret.hasLog
    /\ rret.log.userID = rarg.userID

\* C17: a GetResult to which the cache returned a value that does not decode
\* as a snapshot (the "processing" marker) does not answer from it: it calls
\* FindByRequestIDAndUser exactly once and returns that call's outcome.
C17_UndecodableIsMiss ==
    (/\ rop = "GetResult"
     /\ getRes.done
     /\ getRes.err = Nil
     /\ getRes.value.text # "json")
    =>
    /\ getRes.value = ProcessingEntry
    /\ nFind = 1
    /\ rpc \in {"find", "returned"}
    /\ rpc = "returned" => ReturnedTheLookup

\* C17 witness: the key held the "processing" marker of a request whose
\* record is stored, and the record came from the store
C17_Witness ==
    /\ rop = "GetResult"
    /\ rpc = "returned"
    /\ getRes.value = ProcessingEntry
    /\ getRes.err = Nil
    /\ nFind = 1
    /\ rret.hasLog
    /\ rret.log.requestID = rarg.requestID

----------------------------------------------------------------------------
(***************************************************************************)
(* Duplicate submissions, checked under SpecVerify.                        *)
(***************************************************************************)

\* call q has stored its record, and call r, by the same user with the same
\* bytes, has had a db.Create answered by the database
ResubmittedAfter(q, r) ==
    /\ q # r
    /\ vreq[q].userID = vreq[r].userID
    /\ vreq[q].imageBytes = vreq[r].imageBytes
    /\ SavedBy(q) # {}
    /\ creates[r] # <<>>
    /\ creates[r][Len(creates[r])] \notin DbErrors

\* C20: when a user's VerifyImage has persisted its record and a second call
\* of that user with identical bytes reaches the database, the second call's
\* Create is answered with the uniqueness violation, it is the call's last
\* Create (its only one when it is the first: the conflict is never retried),
\* the call has returned the violation under usecase.save_log with nothing
\* of it stored, the store holds the first record unchanged, and the
\* duplicate query for the first request returns an empty list.
C20_SecondSubmissionConflicts ==
    \A q, r \in Requests :
        ResubmittedAfter(q, r) =>
            /\ creates[r][Len(creates[r])] = Err("DuplicateKey")
            /\ \A i \in 1..(Len(creates[r]) - 1) : creates[r][i] \in DbErrors
            /\ vpc[r] = "returned"
            /\ vret[r] = Failure(NewOperationError("usecase.save_log", vreq[r].requestID,
                             NewOperationError("repository.save_log", vreq[r].requestID,
                                 Err("DuplicateKey"))))
            /\ SavedBy(r) = {}
            /\ \E i \in 1..Len(store) : store[i] = vlog[q] /\ SamePair(vlog[r]) = {i}
            /\ FindDuplicatesByHash(vlog[q].userID, vlog[q].sha1Hash, vlog[q].requestID) = <<>>

\* C20 witness: the first call returned success; the second, scored later
\* with the same user and bytes, made one Create and was refused
C20_Witness ==
    \E q, r \in Requests :
        /\ ResubmittedAfter(q, r)
        /\ vpc[q] = "returned" /\ vret[q].err = Nil
        /\ vlog[q].createdAt < vlog[r].createdAt
        /\ creates[r] = <<Err("DuplicateKey")>>
        /\ vpc[r] = "returned"
        /\ ErrorsIs(vret[r].err, "DuplicateKey")
        /\ Len(store) = 1

\* calls q and r are made by the same user with identical bytes
SameSubmission(q, r) ==
    /\ q # r
    /\ vpc[q] # "idle" /\ vpc[r] # "idle"
    /\ vreq[q].userID = vreq[r].userID
    /\ vreq[q].imageBytes = vreq[r].imageBytes

\* call r has written a result snapshot to the cache
WroteSnapshot(r) ==
    /\ vpc[r] # "idle"
    /\ cache[CacheKey(vreq[r].requestID)].text = "json"

\* C21: in every interleaving of VerifyImage calls made by the same user with
\* identical bytes at most one of them has its record stored.  Once one has,
\* every other one never gets past the save step: it writes no result
\* snapshot, it does not return success, and whenever the database answers
\* its Create the answer is the uniqueness violation, with which it returns
\* under usecase.save_log.  Nothing but the store's answer keeps a call from
\* the save: while none is stored, each of them may reach it.
C21_OneSubmissionPersists ==
    \A q, r \in Requests :
        SameSubmission(q, r) =>
            /\ ~(SavedBy(q) # {} /\ SavedBy(r) # {})
            /\ SavedBy(q) # {} =>
                  /\ SavedBy(r) = {}
                  /\ ~WroteSnapshot(r)
                  /\ vpc[r] # "set_result"
                  /\ vpc[r] = "returned" => vret[r].err # Nil
                  /\ (creates[r] # <<>> /\ creates[r][Len(creates[r])] \notin DbErrors) =>
                        /\ vpc[r] = "returned"
                        /\ vret[r].err[1].op = "usecase.save_log"
                        /\ ErrorsIs(vret[r].err, "DuplicateKey")

\* C21 witness: two overlapping calls with the same submission: r was scored
\* first, q's record was stored first; q returned success and r was refused
C21_Witness ==
    \E q, r \in Requests :
        /\ SameSubmission(q, r)
        /\ vlog[r].createdAt < vlog[q].createdAt
        /\ SavedBy(q) # {} /\ WroteSnapshot(q)
        /\ vpc[q] = "returned" /\ vret[q].err = Nil
        /\ vpc[r] = "returned"
        /\ ErrorsIs(vret[r].err, "DuplicateKey")
        /\ ~WroteSnapshot(r)

\* call r has built its VerificationLog
BuiltLog(r) == vlog[r] # NoLog

\* length of the hex encoding of a SHA-1 digest
Sha1HexLen == 40

\* C25: the fingerprint of a record is a function of the submitted bytes
\* only: the log a VerifyImage call builds, and the record it stores, carry
\* the 40-character hex digest of the call's bytes; two calls with equal
\* bytes carry equal fingerprints whatever their users, request ids and
\* creation times.
C25_FingerprintOfBytesOnly ==
    /\ \A r \in Requests :
          BuiltLog(r) =>
              /\ vlog[r].sha1Hash = Sha1Hex(vreq[r].imageBytes)
              /\ Len(vlog[r].sha1Hash) = Sha1HexLen
              /\ \A i \in SavedBy(r) : store[i].sha1Hash = Sha1Hex(vreq[r].imageBytes)
    /\ \A q, r \in Requests :
          (BuiltLog(q) /\ BuiltLog(r) /\ vreq[q].imageBytes = vreq[r].imageBytes) =>
              vlog[q].sha1Hash = vlog[r].sha1Hash

\* C25 witness: two calls of different users with equal bytes, scored at
\* different times, built logs with the same fingerprint; one is stored
C25_Witness ==
    \E q, r \in Requests :
        /\ BuiltLog(q) /\ BuiltLog(r)
        /\ vreq[q].userID # vreq[r].userID
        /\ vreq[q].imageBytes = vreq[r].imageBytes
        /\ vlog[q].createdAt # vlog[r].createdAt
        /\ vlog[q].sha1Hash = vlog[r].sha1Hash
        /\ SavedBy(q) # {}

\* C29: the scorer is invoked at most once per VerifyImage call, and only in
\* the scoring step: a call whose scorer failed, with a transient error or
\* any other, has returned that error under grpc_process_image after the one
\* invocation, with no record built, nothing saved and no snapshot written.
C29_ScorerCalledOnce ==
    \A r \in Requests :
        /\ scorerCalls[r] <= 1
        /\ vpc[r] \in {"idle", "set_processing", "process"} => scorerCalls[r] = 0
        /\ vpc[r] \in {"save_log", "set_result"} => scorerCalls[r] = 1
        /\ (scorerCalls[r] >= 1 /\ vres[r] = NoResult) =>
              /\ vpc[r] = "returned"
              /\ vret[r].err # Nil
              /\ vret[r].err[1] = [kind |-> "OperationError",
                                   op |-> "usecase.grpc_process_image",
                                   rid |-> vreq[r].requestID]
              /\ Unwrap(vret[r].err) \in ProcessErrors
              /\ ~BuiltLog(r)
              /\ creates[r] = <<>>
              /\ SavedBy(r) = {}
              /\ ~WroteSnapshot(r)

\* C29 witness: a call's single scorer invocation failed with a transient
\* error and the call has returned it, with nothing saved
C29_Witness ==
    \E r \in Requests :
        /\ scorerCalls[r] = 1
        /\ vpc[r] = "returned"
        /\ Unwrap(vret[r].err) = Err("transientTestError")
        /\ vret[r].err[1].op = "usecase.grpc_process_image"
        /\ SavedBy(r) = {}

\* C26: the store only grows: every step leaves the stored records as they
\* are and at most appends one, the log of a call that is in its save step,
\* whose scorer has returned a result, none of whose records is stored yet
\* and whose snapshot is not written, neither before nor by that step; no
\* call ever has more than one record, and a call whose snapshot is in the
\* cache has its record in the store.
C26_StoreOnlyGrows ==
    [][/\ Len(store') >= Len(store)
       /\ \A i \in 1..Len(store) : store'[i] = store[i]
       /\ store' # store =>
             \E r \in Requests :
                 /\ store' = Append(store, vlog[r])
                 /\ vpc[r] = "save_log"
                 /\ scorerCalls[r] = 1
                 /\ vres[r] \in ScorerResults
                 /\ SavedBy(r) = {}
                 /\ ~WroteSnapshot(r)
                 /\ ~WroteSnapshot(r)'
       /\ \A r \in Requests :
             /\ Cardinality(SavedBy(r)') <= 1
             /\ WroteSnapshot(r)' => SavedBy(r)' # {}
      ]_vars

\* C26 witness: two records are stored, and the snapshot of one of them was
\* written after its insert while the other call was aborted after its own
C26_Witness ==
    \E q, r \in Requests :
        /\ q # r
        /\ Len(store) = 2
        /\ SavedBy(q) # {} /\ SavedBy(r) # {}
        /\ WroteSnapshot(q)
        /\ vpc[r] = "returned" /\ vret[r].err # Nil
        /\ ~WroteSnapshot(r)

\* the entry under the key of call r; the key exists once the call is made
EntryOf(r) == IF vpc[r] = "idle" THEN NoEntry ELSE cache[CacheKey(vreq[r].requestID)]

\* C27: the key verification:<requestID> of a call receives first the
\* "processing" marker, with TTL 1 minute, and later the full snapshot, with
\* TTL 5 minutes, and nothing else: an empty key only ever receives the
\* marker and the marker is only ever replaced by the snapshot.  Whenever the
\* key holds a snapshot the store holds a record with that requestID whose
\* userID, score, success, details and fingerprint are the snapshot's.
C27_MarkerThenSnapshot ==
    [][\A r \in Requests :
        /\ EntryOf(r)' # EntryOf(r) =>
              \/ EntryOf(r) = NoEntry /\ EntryOf(r)' = ProcessingEntry
              \/ EntryOf(r) = ProcessingEntry /\ EntryOf(r)'.text = "json"
        /\ EntryOf(r)'.text = "processing" => EntryOf(r)'.ttl = 1
        /\ EntryOf(r)'.text = "json" =>
              /\ EntryOf(r)'.ttl = 5
              /\ \E i \in 1..Len(store') :
                    /\ store'[i].requestID = vreq'[r].requestID
                    /\ EntryOf(r)'.payload.requestID = store'[i].requestID
                    /\ EntryOf(r)'.payload.userID = store'[i].userID
                    /\ EntryOf(r)'.payload.score = store'[i].score
                    /\ EntryOf(r)'.payload.success = store'[i].success
                    /\ EntryOf(r)'.payload.details = store'[i].details
                    /\ EntryOf(r)'.payload.hash = store'[i].sha1Hash
      ]_vars

\* C27 witness: one key holds a snapshot and the other still the marker of a
\* call whose record is stored
C27_Witness ==
    \E q, r \in Requests :
        /\ EntryOf(q).text = "json"
        /\ EntryOf(q).ttl = 5
        /\ SavedBy(q) # {}
        /\ vpc[r] # "idle"
        /\ EntryOf(r) = ProcessingEntry
        /\ SavedBy(r) # {}

----------------------------------------------------------------------------
(***************************************************************************)
(* Properties of GetDuplicateReport, checked under SpecRead.               *)
(***************************************************************************)

\* C23: GetDuplicateReport looks the request up once, by (requestID,
\* userID): a record it obtains is the stored record with that request id
\* and that owner.  When the lookup fails, in particular with not-found
\* because no such record exists, it returns the lookup's error as received
\* and the duplicate query is never issued.  When it returns a report, the
\* report's request is the record looked up, the duplicate query was issued
\* once, and no entry of the duplicates list has the request's id.
C23_ReportLooksUpFirst ==
    rop = "GetDuplicateReport" =>
        /\ nFind = 1
        /\ (findRes.done /\ findRes.err = Nil) =>
              /\ findRes.log \in { store[i] : i \in 1..Len(store) }
              /\ findRes.log.requestID = rarg.requestID
              /\ findRes.log.userID = rarg.userID
        /\ (findRes.done /\ ErrorsIs(findRes.err, "ErrRecordNotFound")) =>
              FirstMatch(rarg.requestID, rarg.userID) = {}
        /\ (findRes.done /\ findRes.err # Nil) =>
              /\ rpc = "returned"
              /\ rret = ErrReturn(findRes.err)
              /\ nDups = 0
        /\ ~findRes.done => nDups = 0
        /\ (rpc = "returned" /\ rret.hasReport) =>
              /\ nDups = 1
              /\ rret.err = Nil
              /\ rret.log = findRes.log
              /\ \A i \in 1..Len(rret.duplicates) :
                    rret.duplicates[i].requestID # rret.log.requestID

\* C23 witness: the request id belongs to a stored record of another user;
\* the lookup reported not-found, which was returned without a duplicate query
C23_Witness ==
    /\ rop = "GetDuplicateReport"
    /\ rpc = "returned"
    /\ ErrorsIs(rret.err, "ErrRecordNotFound")
    /\ rret.err = findRes.err
    /\ nDups = 0
    /\ \E i \in 1..Len(store) :
          store[i].requestID = rarg.requestID /\ store[i].userID # rarg.userID

----------------------------------------------------------------------------
(***************************************************************************)
(* SpecQuery: one FindDuplicatesByHash call made on the repository.        *)
(*                                                                         *)
(* The repository runs its query on whatever verification_logs table its   *)
(* *gorm.DB holds; it does not create the schema.  The tables here keep    *)
(* request_id unique and nothing else, so that several rows, of one owner  *)
(* or of several, share a fingerprint and creation times may coincide.     *)
(* With the unique index on sha1_hash that AutoMigrate creates, at most    *)
(* one row matches any query; those tables are among the ones checked.     *)
(***************************************************************************)

\* the scorer result the rows of the table carry
RowResult == CHOOSE res \in ScorerResults : res.success

\* the rows the table can hold in position i
TableRows(i) ==
    { NewLog([requestID |-> UUIDs[i], userID |-> u, imageBytes |-> b], RowResult, t) :
        u \in Users, b \in Images, t \in 1..MaxStored }

Tables ==
    UNION { { s \in [1..n -> UNION { TableRows(i) : i \in 1..MaxRows }] :
                \A i \in 1..n : s[i] \in TableRows(i) } : n \in 0..MaxRows }

\* the arguments of the call: any owner or none, the fingerprint of an image
\* or one no row has, the id of a row, an id of no row, or none
QueryUsers == Users \cup {""}

QueryHashes == { Sha1Hex(b) : b \in Images \cup {""} }

QueryExcludes == { UUIDs[i] : i \in 1..MaxRows } \cup {"", "uuid-0"}

InitQuery ==
    /\ ExtraAtRest
    /\ ClassifyAtRest
    /\ RetryAtRest
    /\ vpc = <<>> /\ sub = <<>> /\ att = <<>> /\ vctx = <<>>
    /\ vreq = <<>> /\ vres = <<>> /\ vlog = <<>> /\ vret = <<>>
    /\ clock = 0
    /\ markerSets = <<>> /\ setKeys = <<>> /\ creates = <<>> /\ scorerCalls = <<>>
    /\ store \in Tables
    /\ cache = <<>>
    /\ rop = "none"
    /\ rpc = "idle"
    /\ rsub = "none"
    /\ ratt = 0
    /\ rctx = Nil
    /\ rarg = [userID |-> "", requestID |-> "", sha1Hash |-> ""]
    /\ rlog = NoLog
    /\ rret = NoReturn
    /\ gets = <<>>
    /\ nFind = 0
    /\ nDups = 0
    /\ getRes = NoGet
    /\ findRes = NoFind

\* r.FindDuplicatesByHash(ctx, userID, hash, excludeRequestID) is called
CallFindDuplicatesByHash ==
    /\ rpc = "idle"
    /\ \E uid \in QueryUsers, h \in QueryHashes, x \in QueryExcludes :
          rarg' = [userID |-> uid, requestID |-> x, sha1Hash |-> h]
    /\ rop' = "FindDuplicatesByHash"
    /\ ReadGoto("dups")
    /\ nDups' = nDups + 1
    /\ UNCHANGED <<readRest, rctx, rlog, rret, gets, nFind, getRes, findRes>>

NextQuery ==
    \/ CallFindDuplicatesByHash
    \/ FindDuplicates
    \/ ReadTimerFires
    \/ ReadCancelled

SpecQuery == InitQuery /\ [][NextQuery]_vars

\* the stored records a FindDuplicatesByHash call is to return
Matching(uid, hash, excl) ==
    { store[i] : i \in { k \in 1..Len(store) :
                           /\ store[k].sha1Hash = hash
                           /\ (uid = "" \/ store[k].userID = uid)
                           /\ (excl = "" \/ store[k].requestID # excl) } }

\* C22: a FindDuplicatesByHash call that returns without error returns
\* exactly the stored records whose fingerprint is the argument, whose owner
\* is userID when userID is non-empty, and whose requestID is not
\* excludeRequestID when that is non-empty: each of them once, no other
\* record, and no record before one created later.  A call that fails
\* returns no records.
C22_DuplicatesFilteredNewestFirst ==
    (rop = "FindDuplicatesByHash" /\ rpc = "returned") =>
        LET l == rret.duplicates
            want == Matching(rarg.userID, rarg.sha1Hash, rarg.requestID)
        IN  IF rret.err = Nil
            THEN /\ { l[i] : i \in 1..Len(l) } = want
                 /\ Len(l) = Cardinality(want)
                 /\ \A i, j \in 1..Len(l) : i < j => l[i].createdAt >= l[j].createdAt
            ELSE l = <<>>

\* C22 witness: a query for any owner returned two records of different
\* owners, the newer first, and left out a third with the same fingerprint
\* because its id was the excluded one
C22_Witness ==
    /\ rop = "FindDuplicatesByHash"
    /\ rpc = "returned"
    /\ rret.err = Nil
    /\ rarg.userID = ""
    /\ Len(rret.duplicates) = 2
    /\ rret.duplicates[1].userID # rret.duplicates[2].userID
    /\ rret.duplicates[1].createdAt > rret.duplicates[2].createdAt
    /\ \E i \in 1..Len(store) :
          store[i].sha1Hash = rarg.sha1Hash /\ store[i].requestID = rarg.requestID

----------------------------------------------------------------------------
(***************************************************************************)
(* Termination of the retry executors.                                     *)
(*                                                                         *)
(* SpecRetryFair is SpecRetry with the executor's own steps weakly fair:   *)
(* the goroutine running the executor is scheduled, an invocation of fn    *)
(* returns (CallFn, RunSingle), and the timer of time.After(backoff)       *)
(* fires after its finite duration (TimerFires).  Nothing is assumed of    *)
(* the caller: the context may be cancelled at any time or never           *)
(* (CtxCancel is not fair).                                                *)
(***************************************************************************)

SpecRetryFair ==
    /\ SpecRetry
    /\ WF_vars(RunSingle)
    /\ WF_vars(EnterLoop)
    /\ WF_vars(Select)
    /\ WF_vars(TimerFires)
    /\ WF_vars(ReturnCancelled)
    /\ WF_vars(CallFn)

Max(a, b) == IF a >= b THEN a ELSE b

\* C28: every execution of a retry executor returns.  Until then it has
\* invoked fn at most max(1, attemptBudget) times and has entered at most
\* attemptBudget - 1 waits (none when the budget is below one), of which
\* those ended by the timer are recorded in waits; a wait is left only by
\* its timer firing, which leads to the next invocation, or by the context
\* being done, which leads to the return.
C28_ExecutorTerminates ==
    /\ <>(pc = "done")
    /\ [](/\ calls <= Max(1, retryAttempts)
          /\ attempt <= Max(0, retryAttempts - 1)
          /\ Len(waits) <= attempt)
    /\ [][pc = "blocked" =>
            \/ pc' = "call" /\ Len(waits') = Len(waits) + 1 /\ ctxErr' = ctxErr
            \/ pc' = "woken" /\ ctxErr = Nil /\ ctxErr' # Nil /\ waits' = waits]_vars
    /\ [](pc = "woken" => ctxErr # Nil)

\* C28 witness: the executor has returned after using its whole budget of
\* three or more invocations, every wait in between ended by its timer
C28_Witness ==
    /\ pc = "done"
    /\ retryAttempts >= 3
    /\ calls = retryAttempts
    /\ attempt = retryAttempts - 1
    /\ Len(waits) = retryAttempts - 1
    /\ ctxErr = Nil

----------------------------------------------------------------------------
(***************************************************************************)
(* SpecMetrics: one GetMetricsSummary call.                                *)
(*                                                                         *)
(* AggregateMetrics is the store's: it delivers the total and successful   *)
(* record counts and the two means, or an error.  The counts are far below *)
(* 2^53, where float64(int64) is exact; a quotient of two such values is   *)
(* kept as the exact fraction in lowest terms (which float64 rounds to the *)
(* nearest value it can represent), and a division by zero gives what      *)
(* IEEE 754 gives: NaN for 0/0, an infinity otherwise.  The means are      *)
(* float64 values the call only copies.                                    *)
(***************************************************************************)

\* largest total record count AggregateMetrics reports
MaxTotal == 5

RECURSIVE GCD(_, _)
GCD(a, b) == IF b = 0 THEN a ELSE GCD(b, a % b)

\* float64 values as fractions; den = 0 stands for NaN (num = 0) and +Inf
Fraction(n, d) == [num |-> n, den |-> d]

\* float64(n) / float64(d) for counts n >= 0, d >= 0
Quotient(n, d) ==
    IF d = 0 THEN (IF n = 0 THEN Fraction(0, 0) ELSE Fraction(1, 0))
    ELSE Fraction(n \div GCD(n, d), d \div GCD(n, d))

\* the zero value of MetricsSummary.SuccessRate
ZeroRate == Fraction(0, 1)

AverageScores == {"0", "0.72", "1"}

AverageLatencies == {"0", "125.5"}

\* repository.MetricsAggregation values AggregateMetrics may deliver
MetricsAggregations ==
    { g \in [totalCount : 0..MaxTotal, successCount : 0..MaxTotal,
             averageScore : AverageScores, averageProcessingLatencyMs : AverageLatencies] :
        g.successCount <= g.totalCount }

NoAggregation ==
    [totalCount |-> 0, successCount |-> 0, averageScore |-> "", averageProcessingLatencyMs |-> ""]

\* errors AggregateMetrics may return
MetricsErrors ==
    DbErrors \cup CallCtxErrors \cup
    { NewOperationError("repository.aggregate_metrics", "", e) : e \in DbErrors }

NoSummary ==
    [totalRequests |-> 0, successfulRequests |-> 0, successRate |-> ZeroRate,
     averageScore |-> "", averageProcessingLatencyMs |-> ""]

\* C24 mutant: the rate is computed without the test of the total
C24_MutantUnguardedDivision(agg) ==
    [value |-> Quotient(agg.successCount, agg.totalCount), divisions |-> 1]

\* `if aggregation.TotalCount > 0 { summary.SuccessRate = ... / ... }`:
\* the rate, and the number of divisions performed for it
SuccessRate(agg) ==
    IF agg.totalCount > 0
    THEN [value |-> Quotient(agg.successCount, agg.totalCount), divisions |-> 1]
    ELSE [value |-> ZeroRate, divisions |-> 0]

\* the MetricsSummary built from the aggregation
Summary(agg) ==
    [totalRequests              |-> agg.totalCount,
     successfulRequests         |-> agg.successCount,
     successRate                |-> SuccessRate(agg).value,
     averageScore               |-> agg.averageScore,
     averageProcessingLatencyMs |-> agg.averageProcessingLatencyMs]

InitMetrics ==
    /\ ClassifyAtRest
    /\ RetryAtRest
    /\ VerifyAtRest
    /\ ReadAtRest
    /\ ServeAtRest
    /\ HandlerAtRest
    /\ mpc = "idle"
    /\ magg = [agg |-> NoAggregation, err |-> Nil]
    /\ mret = [summary |-> NoSummary, hasSummary |-> FALSE, err |-> Nil]
    /\ mdivs = 0

metricsRest == <<clsVars, retryVars, verifyVars, readerVars, serveVars, serveTrace, handlerVars>>

\* GetMetricsSummary(ctx) is called and calls uc.repo.AggregateMetrics(ctx)
GetMetricsSummary ==
    /\ mpc = "idle"
    /\ mpc' = "aggregate"
    /\ UNCHANGED <<metricsRest, magg, mret, mdivs>>

\* AggregateMetrics returns, and GetMetricsSummary returns its error or
\* the summary it builds
AggregateMetricsReturns ==
    /\ mpc = "aggregate"
    /\ \/ \E e \in MetricsErrors :
             /\ magg' = [agg |-> NoAggregation, err |-> e]
             /\ mret' = [summary |-> NoSummary, hasSummary |-> FALSE, err |-> e]
             /\ UNCHANGED mdivs
       \/ \E agg \in MetricsAggregations :
             /\ magg' = [agg |-> agg, err |-> Nil]
             /\ mret' = [summary |-> Summary(agg), hasSummary |-> TRUE, err |-> Nil]
             /\ mdivs' = mdivs + SuccessRate(agg).divisions
    /\ mpc' = "returned"
    /\ UNCHANGED metricsRest

NextMetrics ==
    \/ GetMetricsSummary
    \/ AggregateMetricsReturns

SpecMetrics == InitMetrics /\ [][NextMetrics]_vars

\* C24: when AggregateMetrics fails, GetMetricsSummary returns its error as
\* received and no summary, and divides nothing.  Otherwise it returns a
\* summary whose total, success count and two averages are the
\* aggregation's; with a positive total the success rate is the quotient
\* successCount / totalCount (one division), and with a total of zero it is
\* 0 and no division is performed.
C24_SuccessRateGuarded ==
    mpc = "returned" =>
        IF magg.err # Nil
        THEN /\ mret.err = magg.err
             /\ ~mret.hasSummary
             /\ mdivs = 0
        ELSE /\ mret.err = Nil
             /\ mret.hasSummary
             /\ mret.summary.totalRequests = magg.agg.totalCount
             /\ mret.summary.successfulRequests = magg.agg.successCount
             /\ mret.summary.averageScore = magg.agg.averageScore
             /\ mret.summary.averageProcessingLatencyMs = magg.agg.averageProcessingLatencyMs
             /\ magg.agg.totalCount > 0 =>
                   /\ mret.summary.successRate.den > 0
                   /\ mret.summary.successRate.num * magg.agg.totalCount
                         = magg.agg.successCount * mret.summary.successRate.den
                   /\ mdivs = 1
             /\ magg.agg.totalCount = 0 =>
                   /\ mret.summary.successRate = Fraction(0, 1)
                   /\ mdivs = 0

\* C24 witness: the aggregation {total 5, success 3} gave the rate 3/5
C24_Witness ==
    /\ mpc = "returned"
    /\ magg.err = Nil
    /\ magg.agg.totalCount = 5
    /\ magg.agg.successCount = 3
    /\ mret.summary.successRate = Fraction(3, 5)
    /\ mret.summary.averageScore = "0.72"
    /\ mret.summary.averageProcessingLatencyMs = "125.5"

----------------------------------------------------------------------------
(***************************************************************************)
(* SpecServe: one serveHTTPServerWithOptions call.                         *)
(*                                                                         *)
(* Two goroutines: the function, and the one it starts to run Serve (or    *)
(* ListenAndServe) and to send its result on errCh.  The environment       *)
(* delivers HTTP requests while the server accepts connections, answers    *)
(* them, delivers one shutdown signal or closes a signal channel the       *)
(* caller supplied, and lets the shutdown timeout expire.  Serve fails     *)
(* with an error of its own when the listener fails, and returns           *)
(* http.ErrServerClosed once Shutdown has been called.                     *)
(*                                                                         *)
(* server.Shutdown(ctx) is net/http's: it closes the listeners, then       *)
(* checks whether every connection is idle and returns nil if so;          *)
(* otherwise it waits for its poll timer or for ctx.Done(), returns        *)
(* ctx.Err() in the latter case, and checks again in the former.           *)
(* The process ends when the function returns (main returns, or logs the   *)
(* error fatally): a request not answered by then is not answered.         *)
(***************************************************************************)

\* HTTP requests the server receives during the call
MaxHttpRequests == 2

HttpRequests == 1..MaxHttpRequests

\* C40 mutant: errCh is made without a buffer, make(chan error)
C40_MutantUnbuffered == Len(<<>>)

\* `errCh := make(chan error, 1)`
ErrChCap == 1

NoShutdown == [done |-> FALSE, err |-> Nil]

\* the requests whose handler is running
InFlight == { q \in HttpRequests : reqs[q] = "inflight" }

\* C30 mutant: the serving goroutine sends Serve's error as it is
C30_MutantReportsServerClosed(e) == e

\* `if errors.Is(err, http.ErrServerClosed) { err = nil }`
ServeResult(e) == IF ErrorsIs(e, "ErrServerClosed") THEN Nil ELSE e

\* `if err := server.Shutdown(ctx); err != nil && !errors.Is(err, context.Canceled)`
ShutdownFailed(e) == e # Nil /\ ~ErrorsIs(e, "Canceled")

InitServe ==
    /\ ClassifyAtRest
    /\ RetryAtRest
    /\ VerifyAtRest
    /\ ReadAtRest
    /\ MetricsAtRest
    /\ HandlerAtRest
    /\ spc = "start"
    /\ gpc = "off"
    /\ gerr = Nil
    /\ errCh = <<>>
    /\ sigCh = "empty"
    /\ sigSource \in {"os", "caller"}
    /\ shutCtx = "none"
    /\ shutRes = NoShutdown
    /\ reqs = [q \in HttpRequests |-> "none"]
    /\ sret = Nil
    /\ sends = 0
    /\ atSignal = {}
    /\ inTime = {}

serveRest == <<clsVars, retryVars, verifyVars, readerVars, metricsVars, handlerVars>>

\* the function is called: it makes errCh, starts the serving goroutine,
\* sets up the signal channel and reaches its select
StartServing ==
    /\ spc = "start"
    /\ spc' = "select"
    /\ gpc' = "serving"
    /\ UNCHANGED <<serveRest, gerr, errCh, sigCh, sigSource, shutCtx, shutRes, reqs, sret,
                   serveTrace>>

\* a request arrives on a connection the server accepts
RequestArrives(q) ==
    /\ gpc = "serving"
    /\ shutCtx = "none"
    /\ spc # "returned"
    /\ reqs[q] = "none"
    /\ reqs' = [reqs EXCEPT ![q] = "inflight"]
    /\ UNCHANGED <<serveRest, spc, gpc, gerr, errCh, sigCh, sigSource, shutCtx, shutRes, sret,
                   serveTrace>>

\* the handler of a request returns and its response is written
RequestAnswered(q) ==
    /\ reqs[q] = "inflight"
    /\ spc # "returned"
    /\ reqs' = [reqs EXCEPT ![q] = "answered"]
    /\ inTime' = IF shutCtx # "expired" THEN inTime \cup {q} ELSE inTime
    /\ UNCHANGED <<serveRest, spc, gpc, gerr, errCh, sigCh, sigSource, shutCtx, shutRes, sret,
                   sends, atSignal>>

\* SIGINT or SIGTERM is delivered, or the caller sends on its channel
SignalArrives ==
    /\ sigCh = "empty"
    /\ shutCtx = "none"
    /\ spc # "returned"
    /\ sigSource = "caller" \/ spc # "start"
    /\ sigCh' = "signal"
    /\ UNCHANGED <<serveRest, spc, gpc, gerr, errCh, sigSource, shutCtx, shutRes, reqs, sret,
                   serveTrace>>

\* the caller closes the signal channel it supplied
SignalChannelClosed ==
    /\ sigSource = "caller"
    /\ sigCh = "empty"
    /\ shutCtx = "none"
    /\ spc # "returned"
    /\ sigCh' = "closed"
    /\ UNCHANGED <<serveRest, spc, gpc, gerr, errCh, sigSource, shutCtx, shutRes, reqs, sret,
                   serveTrace>>

\* Serve returns an error of its own: the listener failed
ServeFails ==
    /\ gpc = "serving"
    /\ shutCtx = "none"
    /\ gerr' = Err("AcceptError")
    /\ gpc' = "ended"
    /\ UNCHANGED <<serveRest, spc, errCh, sigCh, sigSource, shutCtx, shutRes, reqs, sret,
                   serveTrace>>

\* Serve returns http.ErrServerClosed: Shutdown has been called
ServeClosed ==
    /\ gpc = "serving"
    /\ shutCtx # "none"
    /\ gerr' = Err("ErrServerClosed")
    /\ gpc' = "ended"
    /\ UNCHANGED <<serveRest, spc, errCh, sigCh, sigSource, shutCtx, shutRes, reqs, sret,
                   serveTrace>>

\* `errCh <- err`: the goroutine sends its result, if the buffer has room
SendResult ==
    /\ gpc = "ended"
    /\ Len(errCh) < ErrChCap
    /\ errCh' = Append(errCh, ServeResult(gerr))
    /\ sends' = sends + 1
    /\ gpc' = "sent"
    /\ UNCHANGED <<serveRest, spc, gerr, sigCh, sigSource, shutCtx, shutRes, reqs, sret,
                   atSignal, inTime>>

\* `case err := <-errCh: return err`
TakeServerError ==
    /\ spc = "select"
    /\ errCh # <<>>
    /\ sret' = Head(errCh)
    /\ errCh' = Tail(errCh)
    /\ spc' = "returned"
    /\ UNCHANGED <<serveRest, gpc, gerr, sigCh, sigSource, shutCtx, shutRes, reqs, serveTrace>>

\* `case sig, ok := <-sigCh:` with ok: the context with the shutdown timeout
\* is made and server.Shutdown(ctx) is called, which closes the listeners
TakeSignal ==
    /\ spc = "select"
    /\ sigCh = "signal"
    /\ sigCh' = "empty"
    /\ shutCtx' = "running"
    /\ atSignal' = InFlight
    /\ spc' = "shutdown"
    /\ UNCHANGED <<serveRest, gpc, gerr, errCh, sigSource, shutRes, reqs, sret, sends, inTime>>

\* `case sig, ok := <-sigCh:` with !ok: `return <-errCh`
TakeClosed ==
    /\ spc = "select"
    /\ sigCh = "closed"
    /\ spc' = "recv"
    /\ UNCHANGED <<serveRest, gpc, gerr, errCh, sigCh, sigSource, shutCtx, shutRes, reqs, sret,
                   serveTrace>>

\* the shutdown timeout expires
DeadlineExpires ==
    /\ spc \in {"shutdown", "shutdown_wait"}
    /\ shutCtx = "running"
    /\ shutCtx' = "expired"
    /\ UNCHANGED <<serveRest, spc, gpc, gerr, errCh, sigCh, sigSource, shutRes, reqs, sret,
                   serveTrace>>

\* what the function does when server.Shutdown(ctx) returns e
ShutdownReturns(e) ==
    /\ shutRes' = [done |-> TRUE, err |-> e]
    /\ IF ShutdownFailed(e)
       THEN sret' = e /\ spc' = "returned"
       ELSE spc' = "recv" /\ UNCHANGED sret

\* Shutdown checks the connections: all idle, it returns nil; otherwise it
\* goes to wait
ShutdownPolls ==
    /\ spc = "shutdown"
    /\ IF InFlight = {}
       THEN ShutdownReturns(Nil)
       ELSE spc' = "shutdown_wait" /\ UNCHANGED <<shutRes, sret>>
    /\ UNCHANGED <<serveRest, gpc, gerr, errCh, sigCh, sigSource, shutCtx, reqs, serveTrace>>

\* Shutdown's poll timer fires
PollTimerFires ==
    /\ spc = "shutdown_wait"
    /\ spc' = "shutdown"
    /\ UNCHANGED <<serveRest, gpc, gerr, errCh, sigCh, sigSource, shutCtx, shutRes, reqs, sret,
                   serveTrace>>

\* Shutdown sees ctx.Done() and returns ctx.Err()
ShutdownTimesOut ==
    /\ spc = "shutdown_wait"
    /\ shutCtx = "expired"
    /\ ShutdownReturns(Err("DeadlineExceeded"))
    /\ UNCHANGED <<serveRest, gpc, gerr, errCh, sigCh, sigSource, shutCtx, reqs, serveTrace>>

\* `return <-errCh`
ReceiveResult ==
    /\ spc = "recv"
    /\ errCh # <<>>
    /\ sret' = Head(errCh)
    /\ errCh' = Tail(errCh)
    /\ spc' = "returned"
    /\ UNCHANGED <<serveRest, gpc, gerr, sigCh, sigSource, shutCtx, shutRes, reqs, serveTrace>>

NextServe ==
    \/ StartServing
    \/ \E q \in HttpRequests : RequestArrives(q)
    \/ \E q \in HttpRequests : RequestAnswered(q)
    \/ SignalArrives
    \/ SignalChannelClosed
    \/ ServeFails
    \/ ServeClosed
    \/ SendResult
    \/ TakeServerError
    \/ TakeSignal
    \/ TakeClosed
    \/ DeadlineExpires
    \/ ShutdownPolls
    \/ PollTimerFires
    \/ ShutdownTimesOut
    \/ ReceiveResult

SpecServe == InitServe /\ [][NextServe]_vars

\* C30 as stated: when the signal is received while requests are in flight
\* and they all complete before the shutdown timeout expires, the function
\* returns only after they have been answered, and returns nil
C30_AsStated ==
    (spc = "returned" /\ atSignal # {} /\ atSignal \subseteq inTime) =>
        /\ \A q \in atSignal : reqs[q] = "answered"
        /\ sret = Nil

\* C30: when the function has received the shutdown signal while requests
\* were in flight, it returns before one of them is answered only with the
\* deadline error, after the shutdown timeout has expired.  It returns nil
\* exactly when Shutdown found every connection idle and Serve ended with
\* the server-closed condition, which is then not reported as an error.
\* When the requests completed within the timeout and it still returns an
\* error, that error is the deadline error of a timeout that expired before
\* Shutdown checked the connections again, or the error Serve had failed
\* with on its own.
C30_GracefulShutdown ==
    (spc = "returned" /\ atSignal # {}) =>
        /\ \A q \in atSignal :
              \/ reqs[q] = "answered"
              \/ shutCtx = "expired" /\ sret = Err("DeadlineExceeded")
        /\ (shutRes = [done |-> TRUE, err |-> Nil] /\ gerr = Err("ErrServerClosed")) =>
              sret = Nil /\ InFlight = {}
        /\ sret = Nil =>
              shutRes = [done |-> TRUE, err |-> Nil] /\ gerr = Err("ErrServerClosed")
        /\ (atSignal \subseteq inTime /\ sret # Nil) =>
              \/ sret = Err("DeadlineExceeded") /\ shutCtx = "expired"
              \/ sret = Err("AcceptError") /\ gerr = sret /\ shutRes.err = Nil

\* C30 witness: the signal was received with a request in flight, the
\* request was answered within the timeout, and the function returned nil
C30_Witness ==
    /\ spc = "returned"
    /\ atSignal # {}
    /\ atSignal \subseteq inTime
    /\ \A q \in atSignal : reqs[q] = "answered"
    /\ shutCtx = "running"
    /\ gerr = Err("ErrServerClosed")
    /\ sret = Nil

----------------------------------------------------------------------------
(***************************************************************************)
(* Observations of the retry executors, under SpecRetry.                   *)
(***************************************************************************)

\* the number of observations of a level among those emitted
RECURSIVE CountLevel(_, _)
CountLevel(l, level) ==
    IF l = <<>> THEN 0
    ELSE (IF Head(l).level = level THEN 1 ELSE 0) + CountLevel(Tail(l), level)

\* C33: an execution with attemptBudget >= 2 that has returned has emitted
\* one warning for every time it went round the loop after a transient
\* failure; when it returned an error (non-transient failure, exhausted
\* budget or cancelled wait) exactly one error observation and no
\* informational one; when it returned nil no error observation, and one
\* informational observation, carrying the number of invocations, exactly
\* when it had retried.
C33_ObservationsPerOutcome ==
    (pc = "done" /\ ~(retryAttempts <= 1)) =>
        /\ CountLevel(logs, "warn") = attempt
        /\ result # Nil =>
              /\ CountLevel(logs, "error") = 1
              /\ CountLevel(logs, "info") = 0
        /\ result = Nil =>
              /\ CountLevel(logs, "error") = 0
              /\ CountLevel(logs, "info") = (IF attempt > 0 THEN 1 ELSE 0)
              /\ \A i \in 1..Len(logs) : logs[i].level = "info" => logs[i].attempt = calls

----------------------------------------------------------------------------
(***************************************************************************)
(* Ownership and equivalence of the two read paths, under SpecRead.        *)
(***************************************************************************)

\* C34: GetResult(userID, requestID) returns a record only if the record
\* is owned by userID, whether it comes from the cache or from the store:
\* the record returned names the caller as its owner, and no stored record
\* of the request with another owner has its score, details or fingerprint
\* returned.
C34_OnlyOwnerReads ==
    (rop = "GetResult" /\ rpc = "returned" /\ rret.hasLog) =>
        /\ rret.log.userID = rarg.userID
        /\ \A i \in 1..Len(store) :
              (store[i].requestID = rarg.requestID /\ store[i].userID # rarg.userID) =>
                  /\ rret.log.score # store[i].score
                     \/ rret.log.details # store[i].details
                     \/ rret.log.sha1Hash # store[i].sha1Hash


(***************************************************************************)
(* SpecReadAny: SpecRead on a cache whose first key holds any decodable    *)
(* payload.  The cache is a store of its own; a payload written by another *)
(* writer may lack request_id or user_id, which decode as empty strings.   *)
(* The store holds at most one record.                                     *)
(***************************************************************************)

\* cachedVerification values json.Unmarshal can deliver
AnyPayloads ==
    { [Snapshot(l) EXCEPT !.requestID = r, !.userID = u] :
        l \in { x \in StoredLogs(1) : ~MarshalFails(Snapshot(x)) },
        r \in {"", UUIDs[1]},
        u \in Users \cup {""} }

AnyEntries == {NoEntry, ProcessingEntry} \cup { SnapshotEntry(p) : p \in AnyPayloads }

InitReadAny ==
    /\ ExtraAtRest
    /\ ClassifyAtRest
    /\ RetryAtRest
    /\ vpc = <<>> /\ sub = <<>> /\ att = <<>> /\ vctx = <<>>
    /\ vreq = <<>> /\ vres = <<>> /\ vlog = <<>> /\ vret = <<>>
    /\ clock = 0
    /\ markerSets = <<>> /\ setKeys = <<>> /\ creates = <<>> /\ scorerCalls = <<>>
    /\ store \in { s \in Stores : Len(s) <= 1 }
    /\ \E e \in AnyEntries :
          cache = [k \in CacheKeys |-> IF k = CacheKey(UUIDs[1]) THEN e ELSE NoEntry]
    /\ rop = "none"
    /\ rpc = "idle"
    /\ rsub = "none"
    /\ ratt = 0
    /\ rctx = Nil
    /\ rarg = [userID |-> "", requestID |-> ""]
    /\ rlog = NoLog
    /\ rret = NoReturn
    /\ gets = <<>>
    /\ nFind = 0
    /\ nDups = 0
    /\ getRes = NoGet
    /\ findRes = NoFind

SpecReadAny == InitReadAny /\ [][NextRead]_vars

\* the six fields of a record the two read paths are compared on
SixFields(log) ==
    <<log.requestID, log.userID, log.score, log.success, log.details, log.sha1Hash>>

\* C35: when the owner of a stored record calls GetResult for it and the
\* key holds nothing decodable or the snapshot of that record, the record
\* returned has the stored record's requestID, userID, score, success,
\* details and fingerprint, from the cache as from the store.  Whatever
\* decodable payload the key holds, the view returned takes its requestID
\* and userID from the payload when they are non-empty and from the lookup
\* arguments when they are empty.
C35_CacheAndStoreAgree ==
    (rop = "GetResult" /\ rpc = "returned" /\ rret.hasLog) =>
        /\ \A i \in 1..Len(store) :
              (/\ store[i].requestID = rarg.requestID
               /\ store[i].userID = rarg.userID
               /\ cache[CacheKey(rarg.requestID)] \in
                     {NoEntry, ProcessingEntry, SnapshotEntry(Snapshot(store[i]))})
              => SixFields(rret.log) = SixFields(store[i])
        /\ (getRes.err = Nil /\ getRes.value.text = "json") =>
              /\ rret.log.requestID =
                    (IF getRes.value.payload.requestID # ""
                     THEN getRes.value.payload.requestID ELSE rarg.requestID)
              /\ rret.log.userID =
                    (IF getRes.value.payload.userID # ""
                     THEN getRes.value.payload.userID ELSE rarg.userID)

\* C35 witness: the owner was served from the snapshot of the stored
\* record, and the view equals the record on the six fields
C35_Witness ==
    /\ rop = "GetResult"
    /\ rpc = "returned"
    /\ rret.hasLog
    /\ nFind = 0
    /\ Len(store) = 1
    /\ store[1].requestID = rarg.requestID
    /\ store[1].userID = rarg.userID
    /\ getRes.value = SnapshotEntry(Snapshot(store[1]))
    /\ SixFields(rret.log) = SixFields(store[1])


(***************************************************************************)
(* Failure of VerifyImage after the save, under SpecVerify.                *)
(***************************************************************************)

\* the error VerifyImage returned comes from a step after SaveLog: the
\* error of json.Marshal, returned as received, or the error of the
\* cache.set.result executor, which carries that operation name
FailedAfterSave(e) ==
    /\ e # Nil
    /\ \/ e[1].kind = "UnsupportedValueError"
       \/ e[1].op = "cache.set.result"

InitReads ==
    /\ ClassifyAtRest
    /\ RetryAtRest
    /\ ServeAtRest
    /\ HandlerAtRest
    /\ vpc = <<>> /\ sub = <<>> /\ att = <<>> /\ vctx = <<>>
    /\ vreq = <<>> /\ vres = <<>> /\ vlog = <<>> /\ vret = <<>>
    /\ clock = 0
    /\ markerSets = <<>> /\ setKeys = <<>> /\ creates = <<>> /\ scorerCalls = <<>>
    /\ store \in { s \in Stores : Len(s) <= 1 }
    /\ \E e \in EntriesFor(store, 1) :
          cache = [k \in CacheKeys |-> IF k = CacheKey(UUIDs[1]) THEN e ELSE NoEntry]
    /\ rop = "none"
    /\ rpc = "idle"
    /\ rsub = "none"
    /\ ratt = 0
    /\ rctx = Nil
    /\ rarg = [userID |-> "", requestID |-> ""]
    /\ rlog = NoLog
    /\ rret = NoReturn
    /\ gets = <<>>
    /\ nFind = 0
    /\ nDups = 0
    /\ getRes = NoGet
    /\ findRes = NoFind
    /\ mpc = "idle"
    /\ magg = [agg |-> NoAggregation, err |-> Nil]
    /\ mret = [summary |-> NoSummary, hasSummary |-> FALSE, err |-> Nil]
    /\ mdivs = 0

NextReads == NextRead \/ NextMetrics

SpecReads == InitReads /\ [][NextReads]_vars

\* C37: no step of GetResult, GetDuplicateReport or GetMetricsSummary
\* changes the durable store or the cache, whichever path the call takes;
\* in particular the step in which GetResult returns a record loaded from
\* the store leaves the record's cache key as it was.
C37_ReadsLeaveStoreAndCache ==
    [][store' = store /\ cache' = cache]_vars

\* C37 witness: GetResult missed the cache and returned the record it
\* loaded from the store, the record's key is still empty, and
\* GetMetricsSummary has returned a summary
C37_Witness ==
    /\ rop = "GetResult"
    /\ rpc = "returned"
    /\ rret.hasLog
    /\ nFind = 1
    /\ Len(store) = 1
    /\ rret.log = store[1]
    /\ getRes.err # Nil
    /\ cache[CacheKey(rarg.requestID)] = NoEntry
    /\ mpc = "returned"
    /\ mret.hasSummary


(***************************************************************************)
(* SpecReadPerUser: SpecRead on the tables of a database that enforces     *)
(* uniqueness of request_id and of (user_id, sha1_hash) and nothing more,  *)
(* the schema of the SQL migration: two users may hold the same            *)
(* fingerprint.  The cache is empty.                                       *)
(***************************************************************************)

\* request_id unique (by construction of Tables), (user_id, sha1_hash) unique
PerUserKeyed(s) ==
    \A i, j \in 1..Len(s) :
        i # j => (s[i].userID # s[j].userID \/ s[i].sha1Hash # s[j].sha1Hash)

InitReadPerUser ==
    /\ ExtraAtRest
    /\ ClassifyAtRest
    /\ RetryAtRest
    /\ vpc = <<>> /\ sub = <<>> /\ att = <<>> /\ vctx = <<>>
    /\ vreq = <<>> /\ vres = <<>> /\ vlog = <<>> /\ vret = <<>>
    /\ clock = 0
    /\ markerSets = <<>> /\ setKeys = <<>> /\ creates = <<>> /\ scorerCalls = <<>>
    /\ store \in { t \in Tables : PerUserKeyed(t) }
    /\ cache = [k \in CacheKeys |-> NoEntry]
    /\ rop = "none"
    /\ rpc = "idle"
    /\ rsub = "none"
    /\ ratt = 0
    /\ rctx = Nil
    /\ rarg = [userID |-> "", requestID |-> ""]
    /\ rlog = NoLog
    /\ rret = NoReturn
    /\ gets = <<>>
    /\ nFind = 0
    /\ nDups = 0
    /\ getRes = NoGet
    /\ findRes = NoFind

SpecReadPerUser == InitReadPerUser /\ [][NextRead]_vars

\* C38: on a store in which (userID, fingerprint) is unique, every report
\* GetDuplicateReport returns to a caller with a non-empty userID is about
\* a record of that caller and has an empty duplicates list, also when
\* other users hold records with the same fingerprint.
C38_PerUserUniqueMeansNoDuplicates ==
    (rop = "GetDuplicateReport" /\ rpc = "returned" /\ rret.hasReport /\ rarg.userID # "") =>
        /\ rret.log.userID = rarg.userID
        /\ rret.log.requestID = rarg.requestID
        /\ rret.duplicates = <<>>

\* C38 witness: a report was returned with no duplicates while another
\* user's record carries the fingerprint of the reported record
C38_Witness ==
    /\ rop = "GetDuplicateReport"
    /\ rpc = "returned"
    /\ rret.hasReport
    /\ rret.duplicates = <<>>
    /\ nDups = 1
    /\ \E i \in 1..Len(store) :
          /\ store[i].sha1Hash = rret.log.sha1Hash
          /\ store[i].userID # rret.log.userID


(***************************************************************************)
(* SpecSave: one call of SaveLog against a database whose answer to an     *)
(* insert can be lost: Create runs the INSERT in a transaction, and when   *)
(* the connection times out while the reply to the commit is awaited, the  *)
(* driver reports the timeout although the row is in the table.  The log   *)
(* saved has a fresh request id, as VerifyImage gives it; its fingerprint  *)
(* may be in the table already.  The call uses the variables of the read   *)
(* operations for its position and its return.                             *)
(***************************************************************************)

\* the errors a connection reports when the reply to a statement is lost
LostReplyErrors == { Err("TimeoutErr") }

\* what one r.db.WithContext(ctx).Create(log) can do: the error it reports
\* and whether the row was inserted
CreateOutcomes(log) ==
    { [err |-> e, applied |-> FALSE] : e \in DbErrors \cup LostReplyErrors }
    \cup (IF Conflicts(log)
          THEN { [err |-> Err("DuplicateKey"), applied |-> FALSE] }
          ELSE { [err |-> Nil, applied |-> TRUE] }
               \cup { [err |-> e, applied |-> TRUE] : e \in LostReplyErrors })

InitSave ==
    /\ ExtraAtRest
    /\ ClassifyAtRest
    /\ RetryAtRest
    /\ vpc = <<>> /\ sub = <<>> /\ att = <<>> /\ vctx = <<>>
    /\ vreq = <<>> /\ vres = <<>> /\ vlog = <<>> /\ vret = <<>>
    /\ clock = 0
    /\ markerSets = <<>> /\ setKeys = <<>> /\ creates = <<>> /\ scorerCalls = <<>>
    /\ store \in { s \in Stores : Len(s) < MaxStored }
    /\ cache = [k \in CacheKeys |-> NoEntry]
    /\ rop = "none"
    /\ rpc = "idle"
    /\ rsub = "none"
    /\ ratt = 0
    /\ rctx = Nil
    /\ rarg = [userID |-> "", requestID |-> ""]
    /\ rlog = NoLog
    /\ rret = NoReturn
    /\ gets = <<>>
    /\ nFind = 0
    /\ nDups = 0
    /\ getRes = NoGet
    /\ findRes = NoFind

\* SaveLog(ctx, log) is called with a log whose request id is new
CallSaveLog ==
    /\ rpc = "idle"
    /\ \E log \in StoredLogs(Len(store) + 1) :
          /\ rlog' = log
          /\ rarg' = [userID |-> log.userID, requestID |-> log.requestID]
    /\ rop' = "SaveLog"
    /\ ReadGoto("save_log")
    /\ UNCHANGED <<readRest, rctx, rret, readTrace>>

\* one r.db.Create(log) inside executeWithRetry, and what the executor and
\* SaveLog do with the error it reports
Create ==
    /\ rop = "SaveLog"
    /\ rpc = "save_log"
    /\ rsub = "call"
    /\ \E o \in CreateOutcomes(rlog) :
          /\ store' = IF o.applied THEN Append(store, rlog) ELSE store
          /\ creates' = Append(creates, o.err)
          /\ CASE ExecOutcome("save_log", o.err, ratt) = "ok" ->
                  ReadReturn(ErrReturn(Nil))
               [] ExecOutcome("save_log", o.err, ratt) = "fail" ->
                  ReadReturn(ErrReturn(ExecError("save_log", rarg.requestID, o.err)))
               [] OTHER ->
                  ReadRetry /\ UNCHANGED rret
    /\ UNCHANGED <<clsVars, retryVars, extraVars, callVars, cache, clock,
                   markerSets, setKeys, scorerCalls,
                   rop, rctx, rarg, rlog, readTrace>>

NextSave ==
    \/ CallSaveLog
    \/ Create
    \/ ReadTimerFires
    \/ ReadCancelled

SpecSave == InitSave /\ [][NextSave]_vars

\* C39: when SaveLog has returned, it returned nil exactly when the record
\* is in the store, also when an attempt reported a transient error
\* although its insert took effect.
C39_NilIffPersisted ==
    (rop = "SaveLog" /\ rpc = "returned") =>
        (rret.err = Nil <=> \E i \in 1..Len(store) : store[i] = rlog)


(***************************************************************************)
(* SpecServeFair: SpecServe with the scheduling the runtime gives.  A      *)
(* goroutine that can take a step takes it: the function starts, its       *)
(* select proceeds when a case is ready, a receive on a channel that holds *)
(* a value completes, the goroutine's send completes when the buffer has   *)
(* room, Serve returns once Shutdown has been called, Shutdown's loop      *)
(* runs, and the timers of the shutdown context and of the poll fire.      *)
(* Shutdown's select between ctx.Done() and its poll timer is taken again  *)
(* and again, and the runtime picks among ready cases at random, so the    *)
(* expired context is eventually seen (strong fairness).  Nothing is       *)
(* assumed of the environment: signals, handlers finishing, the listener   *)
(* failing.                                                                *)
(***************************************************************************)

SpecServeFair ==
    /\ SpecServe
    /\ WF_vars(StartServing)
    /\ WF_vars(TakeServerError \/ TakeSignal \/ TakeClosed)
    /\ WF_vars(ReceiveResult)
    /\ WF_vars(ServeClosed)
    /\ WF_vars(SendResult)
    /\ WF_vars(ShutdownPolls)
    /\ WF_vars(PollTimerFires)
    /\ WF_vars(DeadlineExpires)
    /\ SF_vars(ShutdownTimesOut)

\* C40: the goroutine sends on errCh at most once, and whenever it is at
\* its send the buffer has room, so the send does not block; when the
\* function has returned the goroutine has sent once, or (the function
\* having returned the error of Shutdown) sends once later; once Serve has
\* ended the function returns, and it has returned as soon as Shutdown has
\* returned an error other than cancellation.
C40_OneSendAndReturn ==
    /\ [](sends <= 1)
    /\ [](gpc = "ended" => Len(errCh) < ErrChCap)
    /\ []((spc = "returned" /\ ~(shutRes.done /\ shutRes.err # Nil)) => sends = 1)
    /\ [](spc = "returned" => <>(sends = 1 /\ gpc = "sent"))
    /\ [](gpc \in {"ended", "sent"} => <>(spc = "returned"))
    /\ []((shutRes.done /\ shutRes.err # Nil) => spc = "returned")

\* C40 witness: the function has returned the deadline error of a Shutdown
\* that exceeded its timeout without receiving from errCh, and the
\* goroutine's one send has completed into the buffer
C40_Witness ==
    /\ spc = "returned"
    /\ sret = Err("DeadlineExceeded")
    /\ shutRes = [done |-> TRUE, err |-> Err("DeadlineExceeded")]
    /\ gpc = "sent"
    /\ sends = 1
    /\ Len(errCh) = 1


----------------------------------------------------------------------------
(***************************************************************************)
(* SpecHttp: one request to the routes RegisterRoutes wires behind the     *)
(* authentication middleware: GET /metrics/summary, POST /verify,          *)
(* GET /result/:id and GET /duplicates/:id.  A route runs up to its use-   *)
(* case call in one step and writes its response when the call returns.    *)
(* The use case is represented by what it can return.                      *)
(*                                                                         *)
(* A Content-Type value is a sequence of tokens: media types in the        *)
(* spelling received, " " for a run of white space, ";" and parameters.    *)
(***************************************************************************)

\* `const MaxUploadSize = 8 << 20`
MaxUploadSize == 8388608

\* sizes of the image part: empty, one byte, the limit, one byte more
UploadSizes == {0, 1, MaxUploadSize, MaxUploadSize + 1}

\* the identity the middleware left in the request context; "" is none
CtxUsers == Users \cup {""}

\* auth.GetUserID: the value and whether it is a non-empty string
GetUserID(u) == [id |-> (IF u # "" THEN u ELSE ""), ok |-> u # ""]

\* `var allowedContentTypes`
allowedContentTypes == {"image/jpeg", "image/png", "image/gif", "image/webp"}

\* Content-Type values naming one of the four media types: in any case,
\* with white space around, with parameters
AllowedHeaders ==
    { <<"image/jpeg">>, <<"image/png">>, <<"image/gif">>, <<"image/webp">>,
      <<"IMAGE/PNG">>, <<"Image/Jpeg">>,
      <<" ", "image/gif", " ">>,
      <<"image/png", ";", " ", "charset=binary">>,
      <<" ", "IMAGE/PNG", " ", ";", "q=1">> }

\* Content-Type values naming another media type, or none
OtherHeaders ==
    { <<>>, <<" ">>, <<";", "image/png">>,
      <<"text/plain">>, <<"image/svg+xml">>, <<"application/octet-stream">>,
      <<"text/plain", ";", "image/png">>,
      <<"image/png", " ", "image/gif">>,
      <<"TEXT/PLAIN", ";", "charset=utf-8">> }

ContentTypeHeaders == AllowedHeaders \cup OtherHeaders

\* strings.ToLower, token by token
ToLowerToken(t) ==
    CASE t = "IMAGE/PNG" -> "image/png"
      [] t = "Image/Jpeg" -> "image/jpeg"
      [] t = "TEXT/PLAIN" -> "text/plain"
      [] OTHER -> t

ToLower(h) == [i \in 1..Len(h) |-> ToLowerToken(h[i])]

\* strings.TrimSpace: leading and trailing white space removed
RECURSIVE TrimSpace(_)
TrimSpace(h) ==
    IF h = <<>> THEN h
    ELSE IF Head(h) = " " THEN TrimSpace(Tail(h))
    ELSE IF h[Len(h)] = " " THEN TrimSpace(SubSeq(h, 1, Len(h) - 1))
    ELSE h

\* strings.Index(h, ";"), counted from 1; 0 for Go's -1
IndexSemicolon(h) ==
    IF \E i \in 1..Len(h) : h[i] = ";"
    THEN CHOOSE i \in 1..Len(h) : h[i] = ";" /\ \A j \in 1..(i - 1) : h[j] # ";"
    ELSE 0

\* C31 mutant: every content type is let through
C31_MutantTypeNotChecked(contentType) == TRUE

\* isAllowedContentType: lower-cased and trimmed, cut at the first ";" and
\* trimmed again; empty is refused; what remains is looked up as one string
isAllowedContentType(contentType) ==
    LET lowered == TrimSpace(ToLower(contentType))
        idx     == IndexSemicolon(lowered)
        cut     == IF idx # 0 THEN TrimSpace(SubSeq(lowered, 1, idx - 1)) ELSE lowered
    IN  IF cut = <<>> THEN FALSE
        ELSE Len(cut) = 1 /\ cut[1] \in allowedContentTypes

\* io.ReadAll(io.LimitReader(src, MaxUploadSize+1)) on a part of n bytes
DataLen(n) == IF n > MaxUploadSize + 1 THEN MaxUploadSize + 1 ELSE n

\* the message of a response: a fixed text, or the Error() text of errorOf
Fixed(text) == [fixed |-> text, errorOf |-> Nil]

ErrorText(e) == [fixed |-> "", errorOf |-> e]

Response(status, message) == [status |-> status, message |-> message]

NoResponse == Response(0, Fixed(""))

NoHttpRequest ==
    [route |-> "none", user |-> "", hasPart |-> FALSE, size |-> 0, contentType |-> <<>>,
     opens |-> FALSE, reads |-> FALSE, id |-> ""]

NoCall == [op |-> "none", userID |-> "", dataLen |-> 0, requestID |-> ""]

\* POST /verify up to the use-case call: the response of the first check
\* that fails, NoResponse when every check passes
VerifyChecks(rq) ==
    IF ~GetUserID(rq.user).ok THEN Response(401, Fixed("unauthorized"))
    ELSE IF ~rq.hasPart THEN Response(400, Fixed("image file is required"))
    ELSE IF rq.size <= 0 THEN Response(400, Fixed("image file is empty"))
    ELSE IF rq.size > MaxUploadSize THEN Response(413, Fixed("image file is too large"))
    ELSE IF ~isAllowedContentType(rq.contentType)
         THEN Response(415, Fixed("unsupported content type"))
    ELSE IF ~rq.opens THEN Response(400, Fixed("unable to open image"))
    ELSE IF ~rq.reads THEN Response(500, Fixed("failed to read image"))
    ELSE IF DataLen(rq.size) > MaxUploadSize
         THEN Response(413, Fixed("image file is too large"))
    ELSE NoResponse

\* GET /result/:id and GET /duplicates/:id up to the use-case call
IdChecks(rq) ==
    IF ~GetUserID(rq.user).ok THEN Response(401, Fixed("unauthorized"))
    ELSE IF rq.id = "" THEN Response(400, Fixed("id is required"))
    ELSE NoResponse

\* GET /metrics/summary up to the use-case call
MetricsChecks(rq) ==
    IF ~GetUserID(rq.user).ok THEN Response(401, Fixed("unauthorized"))
    ELSE NoResponse

\* the errors VerifyImage returns: an operation error of one of its steps
\* (a failure, a uniqueness conflict of the save, a cancelled wait), or the
\* error of json.Marshal
VerifyImageErrors ==
    { NewOperationError("cache.set.processing", UUIDs[1], Err("Boom")),
      NewOperationError("usecase.grpc_process_image", UUIDs[1], Err("Boom")),
      NewOperationError("usecase.save_log", UUIDs[1],
          NewOperationError("repository.save_log", UUIDs[1], Err("DuplicateKey"))),
      NewOperationError("usecase.save_log", UUIDs[1],
          NewOperationError("repository.save_log", UUIDs[1], Err("ErrBadConn"))),
      Err("UnsupportedValueError"),
      NewOperationError("cache.set.result", UUIDs[1], Err("Canceled")) }

\* the errors GetResult and GetDuplicateReport return: those of the
\* repository's queries
LookupErrors ==
    { NewOperationError("repository.find_by_request_and_user", UUIDs[1], Err("ErrRecordNotFound")),
      NewOperationError("repository.find_by_request_and_user", UUIDs[1], Err("ErrBadConn")),
      NewOperationError("repository.find_by_request_and_user", UUIDs[1], Err("Canceled")) }

DuplicateReportErrors ==
    LookupErrors \cup
    { NewOperationError("repository.find_duplicates_by_hash", UUIDs[1], Err("Boom")) }

InitHttp ==
    /\ ClassifyAtRest
    /\ RetryAtRest
    /\ VerifyAtRest
    /\ ReadAtRest
    /\ MetricsAtRest
    /\ ServeAtRest
    /\ hpc = "idle"
    /\ hreq = NoHttpRequest
    /\ hcall = NoCall
    /\ hret = Nil
    /\ hresp = NoResponse

httpRest == <<clsVars, retryVars, verifyVars, readerVars, metricsVars, serveVars, serveTrace>>

\* the route answers at once, or calls the use case and waits for it
AnswerOrCall(checked, call) ==
    IF checked # NoResponse
    THEN hresp' = checked /\ hpc' = "answered" /\ hcall' = NoCall
    ELSE hresp' = NoResponse /\ hpc' = "core" /\ hcall' = call

\* POST /verify
VerifyRoute ==
    /\ hpc = "idle"
    /\ \E u \in CtxUsers, part \in BOOLEAN, n \in UploadSizes, ct \in ContentTypeHeaders,
          o \in BOOLEAN, r \in BOOLEAN :
          LET rq == [route |-> "verify", user |-> u, hasPart |-> part,
                     size |-> (IF part THEN n ELSE 0),
                     contentType |-> (IF part THEN ct ELSE <<>>),
                     opens |-> part /\ o, reads |-> part /\ o /\ r, id |-> ""]
          IN  /\ hreq' = rq
              /\ AnswerOrCall(VerifyChecks(rq),
                              [op |-> "VerifyImage", userID |-> GetUserID(u).id,
                               dataLen |-> DataLen(rq.size), requestID |-> ""])
    /\ UNCHANGED <<httpRest, hret>>

\* GET /result/:id
ResultRoute ==
    /\ hpc = "idle"
    /\ \E u \in CtxUsers, id \in {"", UUIDs[1]} :
          LET rq == [NoHttpRequest EXCEPT !.route = "result", !.user = u, !.id = id]
          IN  /\ hreq' = rq
              /\ AnswerOrCall(IdChecks(rq),
                              [op |-> "GetResult", userID |-> GetUserID(u).id,
                               dataLen |-> 0, requestID |-> id])
    /\ UNCHANGED <<httpRest, hret>>

\* GET /duplicates/:id
DuplicatesRoute ==
    /\ hpc = "idle"
    /\ \E u \in CtxUsers, id \in {"", UUIDs[1]} :
          LET rq == [NoHttpRequest EXCEPT !.route = "duplicates", !.user = u, !.id = id]
          IN  /\ hreq' = rq
              /\ AnswerOrCall(IdChecks(rq),
                              [op |-> "GetDuplicateReport", userID |-> GetUserID(u).id,
                               dataLen |-> 0, requestID |-> id])
    /\ UNCHANGED <<httpRest, hret>>

\* GET /metrics/summary
MetricsRoute ==
    /\ hpc = "idle"
    /\ \E u \in CtxUsers :
          LET rq == [NoHttpRequest EXCEPT !.route = "metrics", !.user = u]
          IN  /\ hreq' = rq
              /\ AnswerOrCall(MetricsChecks(rq),
                              [op |-> "GetMetricsSummary", userID |-> "",
                               dataLen |-> 0, requestID |-> ""])
    /\ UNCHANGED <<httpRest, hret>>

\* the response a route writes when its use-case call returned e
Mapped(op, e) ==
    IF e = Nil THEN Response(200, Fixed(""))
    ELSE CASE op = "VerifyImage" -> Response(500, ErrorText(e))
           [] op = "GetMetricsSummary" -> Response(500, Fixed("failed to load metrics"))
           [] OTHER -> Response(404, Fixed("result not found"))

\* the use-case call returns e and the route writes its response
CoreReturned(e) ==
    /\ hret' = e
    /\ hresp' = Mapped(hcall.op, e)
    /\ hpc' = "answered"
    /\ UNCHANGED <<httpRest, hreq, hcall>>

VerifyImageReturns ==
    /\ hpc = "core"
    /\ hcall.op = "VerifyImage"
    /\ \E e \in VerifyImageErrors \cup {Nil} : CoreReturned(e)

GetResultReturns ==
    /\ hpc = "core"
    /\ hcall.op = "GetResult"
    /\ \E e \in LookupErrors \cup {Nil} : CoreReturned(e)

GetDuplicateReportReturns ==
    /\ hpc = "core"
    /\ hcall.op = "GetDuplicateReport"
    /\ \E e \in DuplicateReportErrors \cup {Nil} : CoreReturned(e)

GetMetricsSummaryReturns ==
    /\ hpc = "core"
    /\ hcall.op = "GetMetricsSummary"
    /\ \E e \in MetricsErrors \cup {Nil} : CoreReturned(e)

NextHttp ==
    \/ VerifyRoute
    \/ ResultRoute
    \/ DuplicatesRoute
    \/ MetricsRoute
    \/ VerifyImageReturns
    \/ GetResultReturns
    \/ GetDuplicateReportReturns
    \/ GetMetricsSummaryReturns

SpecHttp == InitHttp /\ [][NextHttp]_vars

\* C31: POST /verify calls VerifyImage only for a request that carries an
\* identity and an image part of 1 to MaxUploadSize bytes whose content
\* type names image/jpeg, image/png, image/gif or image/webp, and then with
\* that identity and the bytes of the part.  A request with identity and
\* part whose part is larger than MaxUploadSize is answered 413, and one
\* whose part has an admissible size and another content type is answered
\* 415, both without a call of VerifyImage.
C31_VerifyGuards ==
    hreq.route = "verify" =>
        /\ hcall.op # "none" =>
              /\ hcall.op = "VerifyImage"
              /\ hreq.user # ""
              /\ hreq.hasPart
              /\ hreq.size >= 1 /\ hreq.size <= MaxUploadSize
              /\ hreq.contentType \in AllowedHeaders
              /\ hcall.userID = hreq.user
              /\ hcall.dataLen = hreq.size
        /\ (hreq.user # "" /\ hreq.hasPart /\ hreq.size > MaxUploadSize) =>
              /\ hpc = "answered"
              /\ hresp.status = 413
              /\ hcall.op = "none"
        /\ (/\ hreq.user # "" /\ hreq.hasPart
            /\ hreq.size >= 1 /\ hreq.size <= MaxUploadSize
            /\ hreq.contentType \notin AllowedHeaders) =>
              /\ hpc = "answered"
              /\ hresp.status = 415
              /\ hcall.op = "none"

\* C31 witness: an upload of exactly MaxUploadSize bytes whose content type
\* is spelt in upper case with a parameter has reached VerifyImage
C31_Witness ==
    /\ hreq.route = "verify"
    /\ hpc = "core"
    /\ hcall.op = "VerifyImage"
    /\ hreq.size = MaxUploadSize
    /\ hreq.contentType = <<" ", "IMAGE/PNG", " ", ";", "q=1">>

\* errors of the core that say the record does not exist, or that the
\* request conflicts with a stored record
NotFoundError(e) == ErrorsIs(e, "ErrRecordNotFound")

ConflictError(e) == ErrorsIs(e, "DuplicateKey")

\* C32: when a use-case call of a route returned an error, the response is
\* 404 for a not-found error, a 4xx status for a conflict, and for every
\* other error a 5xx status whose message is a fixed text.
C32_ErrorMapping ==
    (hpc = "answered" /\ hcall.op # "none" /\ hret # Nil) =>
        IF NotFoundError(hret) THEN hresp.status = 404
        ELSE IF ConflictError(hret) THEN hresp.status >= 400 /\ hresp.status < 500
        ELSE /\ hresp.status >= 500 /\ hresp.status < 600
             /\ hresp.message.errorOf = Nil

=============================================================================
